---- MODULE Spec2Model ----
(***************************************************************************)
(* A model of the multi-tier semantic cache of HuskyApply's "brain":       *)
(*   src/brain/vector_database.py  CircuitBreaker, MemoryCache,            *)
(*                                 VectorDatabase                          *)
(*   src/brain/semantic_cache.py   SemanticCache                           *)
(*                                                                         *)
(* The specifications share the variables:                                 *)
(*   SpecCB         CircuitBreaker.call run by concurrent pool threads     *)
(*   SpecMC         MemoryCache.get / put run by concurrent threads        *)
(*   Spec           SemanticCache's operations over the content store,     *)
(*                  the FAISS index and the VectorDatabase, tiers healthy  *)
(*   SpecFaults     the same operations with tiers that fail               *)
(*   SpecThreshold  _calculate_dynamic_threshold over its inputs           *)
(*                                                                         *)
(* Numbers: similarities, thresholds and quality scores are hundredths     *)
(* (0.85 is 85).  Time is an integer clock `now`.                          *)
(***************************************************************************)
EXTENDS Integers, Sequences, FiniteSets, TLC

VARIABLES
    now,        \* time.time()
    cb,         \* the CircuitBreaker object
    cbPc,       \* per pool thread: position in CircuitBreaker.call
    cbRun,      \* history: failed guarded calls since the last successful one
    cbRunStart, \* history: breaker state when the current run of failures began
    cbLast,     \* history: the last critical section of CircuitBreaker.call
    cbHalf,     \* history: the calls admitted since the breaker became HALF_OPEN
    mc,         \* the MemoryCache object
    mcLock,     \* MemoryCache.lock: 0 when free, else the holding thread
    mcPc,       \* per thread: position in MemoryCache.put
    mcLast,     \* history: the last completed MemoryCache operation
    cfg,        \* SemanticCache: config and which optional tiers were initialised
    redis,      \* the Redis content store: key -> serialized entry and expiry
    memCache,   \* SemanticCache._memory_cache: key -> CacheEntry object
    memOrder,   \* insertion order of _memory_cache
    heap,       \* the CacheEntry objects that are shared by reference
    sfaiss,     \* SemanticCache.faiss_index with faiss_id_map, by FAISS id
    chroma,     \* the ChromaDB collection: documents with metadata
    stats,      \* SemanticCache.stats
    scPc,       \* per task: position in get_cached_response
    last,       \* history: the last operation on the SemanticCache
    ops         \* history: operations done, and those done with a failing tier

cbHist == <<cbPc, cbRun, cbRunStart, cbLast, cbHalf>>

mcHist == <<mcLock, mcPc, mcLast>>

scVars ==
    <<cfg, redis, memCache, memOrder, heap, sfaiss, chroma, stats, scPc, last,
      ops>>

vars == <<now, cb, cbHist, mc, mcHist, scVars>>

----------------------------------------------------------------------------
(* Finite maps (Python dicts) *)

EmptyMap == << >>

MapPut(f, k, v) == [x \in (DOMAIN f) \cup {k} |-> IF x = k THEN v ELSE f[x]]

MapDel(f, k) == [x \in (DOMAIN f) \ {k} |-> f[x]]

SeqDel(s, k) == SelectSeq(s, LAMBDA x : x # k)

----------------------------------------------------------------------------
(* CircuitBreaker *)

\* configuration of the breaker under check
FailureThreshold == 2

RecoveryTimeout == 2

HalfOpenMaxCalls == 1

\* the pool threads calling the breaker, and the horizon of the clock
NCallers == 2

MaxNow == 4

CBThreads == 1..NCallers

CBInit ==
    [state |-> "CLOSED", failure_count |-> 0, last_failure_time |-> 0,
     half_open_calls |-> 0]

\* `time.time() - self.last_failure_time > self.recovery_timeout`
CBRecoveryElapsedLax(b, t) == TRUE

CBRecoveryElapsed(b, t) == t - b.last_failure_time > RecoveryTimeout

\* The first critical section of call: the breaker afterwards, and whether the
\* guarded function is invoked (otherwise call raises).
CBAdmitNeverRecovers(b, t) ==
    IF b.state = "OPEN"
    THEN [cb |-> b, admitted |-> FALSE]
    ELSE IF b.state = "HALF_OPEN" /\ b.half_open_calls >= HalfOpenMaxCalls
    THEN [cb |-> b, admitted |-> FALSE]
    ELSE [cb |-> b, admitted |-> TRUE]

CBAdmit(b, t) ==
    LET b1 == IF b.state = "OPEN" /\ CBRecoveryElapsed(b, t)
              THEN [b EXCEPT !.state = "HALF_OPEN", !.half_open_calls = 0]
              ELSE b
    IN  IF b.state = "OPEN" /\ ~CBRecoveryElapsed(b, t)
        THEN [cb |-> b, admitted |-> FALSE]
        ELSE IF b1.state = "HALF_OPEN" /\ b1.half_open_calls >= HalfOpenMaxCalls
        THEN [cb |-> b1, admitted |-> FALSE]
        ELSE [cb |-> b1, admitted |-> TRUE]

\* the success section with failure_count reset in every state
CBOnSuccessResetsAlways(b) ==
    IF b.state = "HALF_OPEN"
    THEN [b EXCEPT !.state = "CLOSED", !.failure_count = 0]
    ELSE [b EXCEPT !.failure_count = 0]

\* The critical section after func returned.
CBOnSuccessNoReset(b) ==
    IF b.state = "HALF_OPEN"
    THEN [b EXCEPT !.state = "CLOSED", !.failure_count = 0]
    ELSE b

CBOnSuccess(b) ==
    IF b.state = "HALF_OPEN"
    THEN [b EXCEPT !.state = "CLOSED", !.failure_count = 0]
    ELSE IF b.state = "CLOSED"
    THEN [b EXCEPT !.failure_count = 0]
    ELSE b

\* The critical section after func raised.
CBOnFailureKeepsTime(b, t) ==
    LET n == b.failure_count + 1
    IN  IF b.state = "HALF_OPEN"
        THEN [b EXCEPT !.failure_count = n, !.state = "OPEN"]
        ELSE IF n >= FailureThreshold
        THEN [b EXCEPT !.failure_count = n, !.state = "OPEN",
                       !.last_failure_time = t]
        ELSE [b EXCEPT !.failure_count = n]

CBOnFailure(b, t) ==
    LET n == b.failure_count + 1
    IN  IF b.state = "HALF_OPEN"
        THEN [b EXCEPT !.failure_count = n, !.state = "OPEN",
                       !.last_failure_time = t]
        ELSE IF n >= FailureThreshold
        THEN [b EXCEPT !.failure_count = n, !.state = "OPEN",
                       !.last_failure_time = t]
        ELSE [b EXCEPT !.failure_count = n]

----------------------------------------------------------------------------
(* MemoryCache *)

\* the cache under check in SpecMC: keys, values, threads, operations
MCKeys == {"k1", "k2", "k3"}

MCValues == {"v1", "v2"}

NMCThreads == 2

MaxMCOps == 4

MCThreads == 1..NMCThreads

MCPolicies == {"LRU", "LFU", "FIFO"}

\* cache: key -> [value, inserted]; order: the dicts' insertion order
MCNew(max_size, policy) ==
    [max_size |-> max_size, eviction_policy |-> policy, cache |-> EmptyMap,
     access_times |-> EmptyMap, access_counts |-> EmptyMap, order |-> << >>]

MCSize(m) == Cardinality(DOMAIN m.cache)

\* min(keys, key=...): the first key, in dict order, of least measure
MCArgMin(order, dom, f) ==
    LET cand == SelectSeq(order, LAMBDA k : k \in dom)
        best == CHOOSE i \in 1..Len(cand) :
                    /\ \A j \in 1..Len(cand) : f[cand[i]] <= f[cand[j]]
                    /\ \A j \in 1..(i - 1) : f[cand[j]] > f[cand[i]]
    IN  cand[best]

MCInserted(m) == [k \in DOMAIN m.cache |-> m.cache[k].inserted]

\* _evict_one with the FIFO branch taken for every policy
MCVictimByInsertion(m) == MCArgMin(m.order, DOMAIN m.cache, MCInserted(m))

MCVictim(m) ==
    IF m.eviction_policy = "LRU"
    THEN MCArgMin(m.order, DOMAIN m.access_times, m.access_times)
    ELSE IF m.eviction_policy = "LFU"
    THEN MCArgMin(m.order, DOMAIN m.access_counts, m.access_counts)
    ELSE MCArgMin(m.order, DOMAIN m.cache, MCInserted(m))

MCEvictOne(m) ==
    IF DOMAIN m.cache = {}
    THEN m
    ELSE LET k == MCVictim(m)
         IN  [m EXCEPT !.cache = MapDel(@, k),
                       !.access_times = MapDel(@, k),
                       !.access_counts = MapDel(@, k),
                       !.order = SeqDel(@, k)]

\* `len(self.cache) >= self.max_size and key not in self.cache`
MCNeedsEvictAlways(m, key) == MCSize(m) >= m.max_size

MCNeedsEvict(m, key) == MCSize(m) >= m.max_size /\ key \notin DOMAIN m.cache

\* defaultdict(int): a missing count reads as 0
MCCount(m, key) ==
    IF key \in DOMAIN m.access_counts THEN m.access_counts[key] ELSE 0

MCInsert(m, key, value, t) ==
    [m EXCEPT !.cache = MapPut(@, key, [value |-> value, inserted |-> t]),
              !.access_times = MapPut(@, key, t),
              !.access_counts = MapPut(@, key, MCCount(m, key) + 1),
              !.order = IF key \in DOMAIN m.cache THEN @ ELSE Append(@, key)]

MCPut(m, key, value, t) ==
    MCInsert(IF MCNeedsEvict(m, key) THEN MCEvictOne(m) ELSE m, key, value, t)

MCHas(m, key) == key \in DOMAIN m.cache

\* get without the test `if key in self.cache`
MCGetCountsAbsent(m, key, t) ==
    [m EXCEPT !.access_times = MapPut(@, key, t),
              !.access_counts = MapPut(@, key, MCCount(m, key) + 1)]

\* get: the cache afterwards (the value read is m.cache[key].value)
MCGet(m, key, t) ==
    IF key \in DOMAIN m.cache
    THEN [m EXCEPT !.access_times = MapPut(@, key, t),
                   !.access_counts = MapPut(@, key, MCCount(m, key) + 1)]
    ELSE m

\* what get returns
MCGetValue(m, key) == IF key \in DOMAIN m.cache THEN m.cache[key].value ELSE "None"

\* history of the keys present: when each was last read by a get or written
\* by a put, and when it was inserted last (while absent)
MCSeenInit == [accessed |-> EmptyMap, inserted |-> EmptyMap]

MCSeenGet(s, m, key, t) ==
    IF key \in DOMAIN m.cache THEN [s EXCEPT !.accessed = MapPut(@, key, t)] ELSE s

MCSeenPut(s, pre, post, key, t) ==
    [accessed |-> [k \in DOMAIN post.cache |-> IF k = key THEN t ELSE s.accessed[k]],
     inserted |-> [k \in DOMAIN post.cache |->
                     IF k = key /\ key \notin DOMAIN pre.cache THEN t
                     ELSE s.inserted[k]]]

\* `with self.lock:` admits a thread only while no thread holds the lock
MCLockIgnored == TRUE

MCLockAvailable == mcLock = 0

----------------------------------------------------------------------------
(* Collaborators of the cache: job texts, their embeddings, generated content *)

Texts == {"jd1", "jd3"}

\* `embedding=[]`: the empty embedding of an entry rebuilt from metadata
NoEmbedding == "none"

\* EmbeddingProvider.embed: deterministic, normalized
Embed(text) ==
    CASE text = "jd1" -> "e1"
      [] text = "jd2" -> "e2"
      [] text = "jd3" -> "e3"
      [] OTHER -> "ew"

\* np.dot of two normalized embeddings, in hundredths
CosSim(a, b) ==
    IF a = b THEN 100
    ELSE IF {a, b} = {"e1", "e2"} THEN 92
    ELSE 60

\* len(content.split())
ContentWords(c) == IF c \in {"c1", "cw"} THEN 50 ELSE 300

\* the lower-cased words that occur in content.lower()
ContentTerms(c) ==
    CASE c = "c1" -> {}
      [] c = "cw" -> {"acme", "swe", "communication", "problem solving", "teamwork"}
      [] OTHER -> {"acme", "python"}

\* str.lower()
Lower(s) ==
    CASE s = "Acme" -> "acme"
      [] s = "SWE" -> "swe"
      [] s = "Python" -> "python"
      [] s = "Communication" -> "communication"
      [] s = "Problem Solving" -> "problem solving"
      [] s = "Teamwork" -> "teamwork"
      [] OTHER -> s

\* str.upper()
Upper(s) ==
    CASE s = "senior" -> "SENIOR"
      [] s = "entry" -> "ENTRY"
      [] s = "tech" -> "TECH"
      [] s = "creative" -> "CREATIVE"
      [] OTHER -> s

\* .lower().replace(" ", "_").replace("-", "_"); no name of the model holds
\* a space or a hyphen
Clean(s) == Lower(s)

\* parsed_jd: None, or a dict with the keys in `keys`
PjdNone ==
    [none |-> TRUE, keys |-> {}, company |-> "", role |-> "", complexity |-> "",
     job_level |-> "", industry_type |-> "", skills |-> {}, n_required |-> 0,
     n_preferred |-> 0]

PjdEmpty == [PjdNone EXCEPT !.none = FALSE]

PjdAcme ==
    [PjdNone EXCEPT !.none = FALSE, !.keys = {"company", "role"},
                    !.company = "Acme", !.role = "SWE"]

\* parsed_jd.get(k, default)
PjdGet(p, k, default) == IF k \in p.keys THEN p[k] ELSE default

\* `not parsed_jd`
PjdFalsy(p) == p.none \/ p.keys = {}

----------------------------------------------------------------------------
(* SemanticCache: configuration, keys, scores *)

\* CacheConfig.similarity_threshold
SimilarityThreshold == 85

\* CacheConfig.ttl_seconds, in clock ticks
TtlTicks == 3

\* CacheConfig.max_cache_size of the configurations checked
MaxCacheSize == 2

\* the memory-cache key's bucket (one hour), in clock ticks
HourTicks == 2

\* VectorDBConfig.max_memory_cache_size as SemanticCache sets it
VdbMemoryCacheSize == 1000

\* the k of the FAISS search: min(10, ntotal)
FaissK == 10

Clamp(lo, hi, x) == IF x < lo THEN lo ELSE IF x > hi THEN hi ELSE x

DynamicThreshold(p, cache_size) ==
    IF PjdFalsy(p) THEN cfg.similarity_threshold
    ELSE
    LET cx == PjdGet(p, "complexity", "")
        complexity_adjustment ==
            IF cx = "SIMPLE" THEN -5 ELSE IF cx = "MODERATE" THEN -2
            ELSE IF cx = "COMPLEX" THEN 3 ELSE 0
        job_level == Upper(PjdGet(p, "job_level", ""))
        level_adjustment ==
            IF job_level \in {"EXECUTIVE", "SENIOR"} THEN 4
            ELSE IF job_level = "ENTRY" THEN -3 ELSE 0
        industry == Upper(PjdGet(p, "industry_type", ""))
        industry_adjustment ==
            IF industry \in {"TECH", "FINANCE"} THEN -2
            ELSE IF industry \in {"CREATIVE", "CONSULTING"} THEN 3 ELSE 0
        total_skills == PjdGet(p, "n_required", 0) + PjdGet(p, "n_preferred", 0)
        skills_adjustment ==
            IF total_skills >= 10 THEN 2 ELSE IF total_skills <= 3 THEN -2 ELSE 0
        cache_adjustment ==
            IF cache_size < 100 THEN -5 ELSE IF cache_size > 5000 THEN 2 ELSE 0
    IN  Clamp(70, 95, cfg.similarity_threshold + (complexity_adjustment
              + level_adjustment + industry_adjustment + skills_adjustment
              + cache_adjustment))

\* sha256 of "text:provider:model", cut to 16 hex digits (collisions left out)
ContentHash(text, provider, model) == <<text, provider, model>>

\* company_partition_enabled is True
CreateCacheKey(company, role, hash) == <<Clean(company), Clean(role), hash>>

QualityScore(content, p) ==
    LET wc == ContentWords(content)
        s0 == IF wc < 200 THEN 80 ELSE IF wc > 400 THEN 90 ELSE 100
        company == Lower(PjdGet(p, "company", ""))
        s1 == IF company # "" /\ company \in ContentTerms(content)
              THEN s0 + 10 ELSE s0
        mentioned == Cardinality({k \in PjdGet(p, "skills", {}) :
                                    Lower(k) \in ContentTerms(content)})
        s2 == IF mentioned >= 3 THEN s1 + 20
              ELSE IF mentioned >= 1 THEN s1 + 10 ELSE s1
    IN  Clamp(0, 100, s2)

NoEntry ==
    [content |-> "", embedding |-> NoEmbedding, company |-> "", role |-> "",
     model_provider |-> "", model_name |-> "", created_at |-> 0,
     hit_count |-> 0, last_accessed |-> 0, quality_score |-> 0]

\* the CacheEntry that cache_response builds
NewEntry(r, t) ==
    [content |-> r.content, embedding |-> Embed(r.text),
     company |-> PjdGet(r.pjd, "company", "unknown"),
     role |-> PjdGet(r.pjd, "role", "unknown"),
     model_provider |-> r.provider, model_name |-> r.model, created_at |-> t,
     hit_count |-> 0, last_accessed |-> t,
     quality_score |-> QualityScore(r.content, r.pjd)]

\* Redis GET / KEYS see a key until its SETEX expiry
RedisLive(rd, key, t) == key \in DOMAIN rd /\ t < rd[key].exp

RedisSetex(rd, key, entry, t) == MapPut(rd, key, [val |-> entry, exp |-> t + TtlTicks])

----------------------------------------------------------------------------
(* VectorDatabase: memory cache, FAISS index, ChromaDB behind the breaker *)

\* _generate_cache_key: hourly buckets
VdbCacheKey(company, role, provider, t) ==
    <<Lower(company), Lower(role), provider, t \div HourTicks>>

\* The IVF index that SemanticCache configures is never trained: every add to
\* it raises inside _add_to_faiss_index, which logs and goes on, so ntotal
\* stays 0 and _search_faiss_index returns [] at its first test.
VdbSearchFaissIndex == << >>

NoResult == [entry |-> 0, similarity |-> 0]

\* the metadata that _add_cache_entry_sync stores with the document
ChromaRecord(e, text) ==
    [doc |-> text, company |-> e.company, role |-> e.role,
     model_provider |-> e.model_provider, model_name |-> e.model_name,
     quality_score |-> e.quality_score, created_at |-> e.created_at,
     hit_count |-> e.hit_count, last_accessed |-> e.last_accessed]

\* breaker.call(_add_cache_entry_sync): w afterwards and the value returned;
\* w.reached records that a method of self.collection was called
VdbAddCacheEntry(w, ref, e, text, chromaFails, t) ==
    LET adm == CBAdmit(w.cb, t)
    IN  IF ~adm.admitted
        THEN [w |-> [w EXCEPT !.cb = adm.cb], ok |-> FALSE]
        ELSE IF chromaFails
        THEN [w |-> [w EXCEPT !.cb = CBOnFailure(adm.cb, t), !.reached = TRUE],
              ok |-> FALSE]
        ELSE [w |-> [w EXCEPT
                       !.reached = TRUE,
                       !.chroma = Append(@, ChromaRecord(e, text)),
                       !.mc = MCPut(@, VdbCacheKey(e.company, e.role,
                                                   e.model_provider, t),
                                    [entry |-> ref, similarity |-> 100], t),
                       !.cb = CBOnSuccess(adm.cb)],
              ok |-> TRUE]

\* `similarity = 1.0 - distance`, ChromaDB's distance taken as cosine distance
ChromaDistance(text, doc) == 100 - CosSim(Embed(text), Embed(doc))

ChromaSimilarity(distance) == 100 - distance

\* _search_chromadb_sync: the where filter, then the threshold; 0 when no result
\* is left, else the index of search_results[0] (the earliest of the nearest)
ChromaMatches(c, provider, model, company, role) ==
    /\ c.model_provider = provider
    /\ c.model_name = model
    /\ company # "" => c.company = company
    /\ role # "" => c.role = role

ChromaBest(coll, text, provider, model, company, role, threshold) ==
    LET ok == {i \in 1..Len(coll) :
                 /\ ChromaMatches(coll[i], provider, model, company, role)
                 /\ ChromaSimilarity(ChromaDistance(text, coll[i].doc)) >= threshold}
        sim(i) == ChromaSimilarity(ChromaDistance(text, coll[i].doc))
    IN  IF ok = {} THEN 0
        ELSE CHOOSE i \in ok :
                 \A j \in ok : sim(j) < sim(i) \/ (sim(j) = sim(i) /\ i <= j)

\* the CacheEntry rebuilt from a ChromaDB result's metadata
ChromaEntry(c) ==
    [content |-> "", embedding |-> NoEmbedding, company |-> c.company,
     role |-> c.role, model_provider |-> c.model_provider,
     model_name |-> c.model_name, created_at |-> c.created_at,
     hit_count |-> c.hit_count, last_accessed |-> 0,
     quality_score |-> c.quality_score]

\* _search_memory_cache's test of the cached result
MemoryResultServesAnyModel(e, res, provider, model, threshold) ==
    /\ e.model_provider = provider
    /\ res.similarity >= threshold

MemoryResultServes(e, res, provider, model, threshold) ==
    /\ e.model_provider = provider
    /\ e.model_name = model
    /\ res.similarity >= threshold

\* search_similar_entries: w afterwards, search_results[0] (or NoResult), the tier
VdbSearchSimilarEntries(w, text, provider, model, company, role, threshold, chromaFails, t) ==
    LET key == VdbCacheKey(company, role, provider, t)
        probe == company # "" /\ role # "" /\ MCHas(w.mc, key)
        res == IF probe THEN w.mc.cache[key].value ELSE NoResult
        w1 == IF company # "" /\ role # ""
              THEN [w EXCEPT !.mc = MCGet(@, key, t)] ELSE w
        adm == CBAdmit(w1.cb, t)
        best == IF adm.admitted /\ ~chromaFails
                THEN ChromaBest(w1.chroma, text, provider, model, company,
                                role, threshold)
                ELSE 0
        cb2 == IF ~adm.admitted THEN adm.cb
               ELSE IF chromaFails THEN CBOnFailure(adm.cb, t)
               ELSE CBOnSuccess(adm.cb)
        ref == Len(w1.heap) + 1
        found == [entry |-> ref,
                  similarity |-> ChromaSimilarity(
                      ChromaDistance(text, w1.chroma[best].doc))]
    IN  IF probe /\ MemoryResultServes(w.heap[res.entry], res, provider, model,
                                       threshold)
        THEN [w |-> w1, result |-> res, tier |-> "vdb-memory"]
        ELSE IF VdbSearchFaissIndex # << >>
        THEN [w |-> w1, result |-> NoResult, tier |-> "vdb-faiss"]
        ELSE IF best = 0
        THEN [w |-> [w1 EXCEPT !.cb = cb2, !.reached = adm.admitted],
              result |-> NoResult, tier |-> "none"]
        ELSE [w |-> [w1 EXCEPT
                       !.cb = cb2,
                       !.reached = TRUE,
                       !.heap = Append(@, ChromaEntry(w1.chroma[best])),
                       !.mc = IF company # "" /\ role # ""
                              THEN MCPut(@, key, found, t) ELSE @],
              result |-> found, tier |-> "vdb-chroma"]

\* update_hit_count(entry_id), the id naming the i-th record of the collection:
\* collection.get and collection.update are called on the collection itself
VdbUpdateHitCount(w, i, chromaFails, t) ==
    IF chromaFails THEN [w |-> [w EXCEPT !.reached = TRUE], ret |-> FALSE]
    ELSE IF i \in 1..Len(w.chroma)
    THEN [w |-> [w EXCEPT !.reached = TRUE,
                          !.chroma[i].hit_count = @ + 1,
                          !.chroma[i].last_accessed = t],
          ret |-> TRUE]
    ELSE [w |-> [w EXCEPT !.reached = TRUE], ret |-> FALSE]

\* the records cleanup_old_entries leaves: `created_at < cutoff_time` go
VdbKeptEntries(coll, max_age, t) ==
    SelectSeq(coll, LAMBDA c : ~(c.created_at < t - max_age))

\* cleanup_old_entries(max_age): collection.get, then collection.delete, on the
\* collection itself; the number of deleted records is returned
VdbCleanupOldEntries(w, max_age, chromaFails, t) ==
    IF chromaFails THEN [w |-> [w EXCEPT !.reached = TRUE], count |-> 0]
    ELSE [w |-> [w EXCEPT !.reached = TRUE,
                          !.chroma = VdbKeptEntries(@, max_age, t)],
          count |-> Len(w.chroma) - Len(VdbKeptEntries(w.chroma, max_age, t))]

\* get_statistics: collection.count and collection.get on the collection
\* itself; collection_size of the dictionary returned, {} on an error
VdbGetStatistics(w, chromaFails) ==
    IF chromaFails THEN [w |-> [w EXCEPT !.reached = TRUE], ret |-> FALSE, count |-> 0]
    ELSE [w |-> [w EXCEPT !.reached = TRUE], ret |-> TRUE, count |-> Len(w.chroma)]

----------------------------------------------------------------------------
(* SemanticCache: the three searches of get_cached_response *)

\* a search's best_match: `ref` is the object on the heap, 0 for a fresh copy
NoBest == [found |-> FALSE, ref |-> 0, entry |-> NoEntry, tier |-> "none"]

\* the content store's read of a full entry by key, as a best_match
StoreGet(w, key, t) ==
    IF cfg.redis
    THEN IF RedisLive(w.redis, key, t)
         THEN [found |-> TRUE, ref |-> 0, entry |-> w.redis[key].val, tier |-> "faiss"]
         ELSE NoBest
    ELSE IF key \in DOMAIN w.memCache
         THEN [found |-> TRUE, ref |-> w.memCache[key],
               entry |-> w.heap[w.memCache[key]], tier |-> "faiss"]
         ELSE NoBest

\* IndexFlatIP.search: ids by descending inner product, the lower id first on a tie
FaissAbove(ix, q, i, j) ==
    \/ CosSim(q, ix[j].embedding) > CosSim(q, ix[i].embedding)
    \/ CosSim(q, ix[j].embedding) = CosSim(q, ix[i].embedding) /\ j < i

FaissRank(ix, q, i) == Cardinality({j \in 1..Len(ix) : FaissAbove(ix, q, i, j)})

\* the id at position n (from 0) of the search result
FaissAt(ix, q, n) == CHOOSE i \in 1..Len(ix) : FaissRank(ix, q, i) = n

\* CacheConfig declares min_quality_score; _find_best_match_faiss reads
\* config.min_quality_threshold, which no CacheConfig has: AttributeError
ConfigMinQualityThreshold == [has |-> FALSE, value |-> 0]

\* the filters of the loop, up to the read of the config attribute
FaissFilterPasses(m, provider, model) ==
    m.model_provider = provider /\ m.model_name = model

\* the loop's tests with the threshold applied to the adjusted similarity,
\* the configuration read succeeding with a floor of 0
FaissTestOnAdjusted(m, similarity, bonus, provider, model, threshold) ==
    IF ~FaissFilterPasses(m, provider, model) THEN "skip"
    ELSE IF similarity + bonus < threshold THEN "skip"
    ELSE "rank"

\* the loop's tests of one candidate, in the order of the code: the filters,
\* the read of the configuration, the threshold on the raw similarity
FaissTest(m, similarity, bonus, provider, model, threshold) ==
    IF ~FaissFilterPasses(m, provider, model) THEN "skip"
    ELSE IF ~ConfigMinQualityThreshold.has THEN "raise"
    ELSE IF m.quality_score < ConfigMinQualityThreshold.value THEN "skip"
    ELSE IF similarity < threshold THEN "skip"
    ELSE "rank"

\* The candidate loop from position n on: "raise", or the best_match.
RECURSIVE FaissLoop(_, _, _, _, _, _, _, _, _, _, _)
FaissLoop(w, q, company, role, provider, model, threshold, t, n, best, bestSim) ==
    IF n >= Len(w.sfaiss) \/ n >= FaissK
    THEN [raised |-> FALSE, best |-> best]
    ELSE
    LET m == w.sfaiss[FaissAt(w.sfaiss, q, n)]
        similarity == CosSim(q, m.embedding)
        bonus == (IF Lower(m.company) = Lower(company) THEN 2 ELSE 0)
                 + (IF Lower(m.role) = Lower(role) THEN 1 ELSE 0)
        got == StoreGet(w, m.cache_key, t)
        skip == FaissLoop(w, q, company, role, provider, model, threshold, t,
                          n + 1, best, bestSim)
        test == FaissTest(m, similarity, bonus, provider, model, threshold)
    IN  IF test = "skip" THEN skip
        ELSE IF test = "raise" THEN [raised |-> TRUE, best |-> NoBest]
        ELSE IF similarity + bonus > bestSim /\ got.found
        THEN FaissLoop(w, q, company, role, provider, model, threshold, t,
                       n + 1, got, similarity + bonus)
        ELSE skip

\* _find_best_match_faiss: every exception is caught and ends in None
FindBestMatchFaiss(w, q, company, role, provider, model, threshold, fails, t) ==
    IF Len(w.sfaiss) = 0 \/ fails
    THEN NoBest
    ELSE LET r == FaissLoop(w, q, company, role, provider, model, threshold,
                            t, 0, NoBest, 0)
         IN  IF r.raised THEN NoBest ELSE r.best

\* _get_content_from_redis: the content, "" for None.  With Redis connected
\* there is no _memory_cache attribute: a Redis miss ends in the except.
GetContentFromRedis(w, e, text, redisFails, t) ==
    LET key == CreateCacheKey(e.company, e.role,
                              ContentHash(text, e.model_provider, e.model_name))
    IN  IF cfg.redis
        THEN IF ~redisFails /\ RedisLive(w.redis, key, t)
             THEN w.redis[key].val.content ELSE ""
        ELSE IF key \in DOMAIN w.memCache
             THEN w.heap[w.memCache[key]].content ELSE ""

\* _find_best_match_vector_db without the completion: the entry as it came
VdbBestMatchKeepsEmpty(s, text, redisFails, t) ==
    IF s.result.entry = 0 THEN [w |-> s.w, best |-> NoBest]
    ELSE [w |-> s.w,
          best |-> [found |-> TRUE, ref |-> s.result.entry,
                    entry |-> s.w.heap[s.result.entry], tier |-> s.tier]]

\* _find_best_match_vector_db after the search: `if vector_results:` and the
\* completion of an entry that came back without content
VdbBestMatch(s, text, redisFails, t) ==
    LET ref == s.result.entry
        e == s.w.heap[ref]
        content == GetContentFromRedis(s.w, e, text, redisFails, t)
    IN  IF ref = 0 THEN [w |-> s.w, best |-> NoBest]
        ELSE IF e.content # ""
        THEN [w |-> s.w,
              best |-> [found |-> TRUE, ref |-> ref, entry |-> e, tier |-> s.tier]]
        ELSE IF content # ""
        THEN [w |-> [s.w EXCEPT !.heap[ref].content = content],
              best |-> [found |-> TRUE, ref |-> ref,
                        entry |-> [e EXCEPT !.content = content],
                        tier |-> s.tier]]
        ELSE [w |-> s.w, best |-> NoBest]

\* _find_best_match_vector_db: w afterwards and the best_match
FindBestMatchVectorDb(w, text, company, role, provider, model, threshold, chromaFails, redisFails, t) ==
    VdbBestMatch(VdbSearchSimilarEntries(w, text, provider, model, company,
                                         role, threshold, chromaFails, t),
                 text, redisFails, t)

\* _find_best_match: the filters in front of the similarity
ScanFilterPasses(e, provider, model) ==
    /\ e.model_provider = provider
    /\ e.model_name = model
    /\ e.quality_score >= cfg.min_quality_score

\* `similarity > best_similarity and similarity >= self.config.similarity_threshold`
ScanSim(e, q) == IF e.embedding = NoEmbedding THEN 0 ELSE CosSim(q, e.embedding)

\* One KEYS pattern of the Redis scan: Redis returns the keys in no fixed order,
\* so each key of greatest similarity can be the one the loop keeps.
ScanStage(st, rd, keys, q, provider, model) ==
    LET ok == {k \in keys : /\ ScanFilterPasses(rd[k].val, provider, model)
                            /\ ScanSim(rd[k].val, q) >= cfg.similarity_threshold}
        m == IF ok = {} THEN 0
             ELSE ScanSim(rd[CHOOSE k \in ok :
                     \A j \in ok : ScanSim(rd[j].val, q) <= ScanSim(rd[k].val, q)].val,
                          q)
    IN  IF m > st.sim
        THEN [keys |-> {k \in ok : ScanSim(rd[k].val, q) = m}, sim |-> m]
        ELSE st

\* `if best_similarity > 0.9: break` in front of the next pattern
ScanNext(st, rd, keys, q, provider, model) ==
    IF st.sim > 90 THEN st ELSE ScanStage(st, rd, keys, q, provider, model)

\* the keys that the Redis scan may end on (empty: no match)
RedisScanKeys(w, q, company, role, provider, model, t) ==
    LET live == {k \in DOMAIN w.redis : RedisLive(w.redis, k, t)}
        g1 == {k \in live : k[1] = Lower(company) /\ k[2] = Lower(role)}
        g2 == {k \in live : k[1] = Lower(company)}
    IN  ScanNext(ScanNext(ScanStage([keys |-> {}, sim |-> 0], w.redis, g1, q,
                                    provider, model),
                          w.redis, g2, q, provider, model),
                 w.redis, live, q, provider, model).keys

\* the in-memory scan: dict order, the first entry of greatest similarity;
\* np.dot with an empty embedding raises out of the loop
MemScanRaises(w, provider, model) ==
    \E k \in DOMAIN w.memCache :
        /\ ScanFilterPasses(w.heap[w.memCache[k]], provider, model)
        /\ w.heap[w.memCache[k]].embedding = NoEmbedding

MemScanKeys(w, q, provider, model) ==
    LET sim(k) == ScanSim(w.heap[w.memCache[k]], q)
        ok == {i \in 1..Len(w.memOrder) :
                 /\ ScanFilterPasses(w.heap[w.memCache[w.memOrder[i]]], provider, model)
                 /\ sim(w.memOrder[i]) >= cfg.similarity_threshold}
    IN  {w.memOrder[i] : i \in {i \in ok : \A j \in ok :
            \/ sim(w.memOrder[j]) < sim(w.memOrder[i])
            \/ sim(w.memOrder[j]) = sim(w.memOrder[i]) /\ i <= j}}

\* `... / self.stats.cache_hits` with best_match set: ZeroDivisionError at 0
AverageSimilarityRaises(st) == st.cache_hits = 0

\* _find_best_match after the loop: the statistics, then `return best_match`
ScanBests(w, keys) ==
    IF keys = {} \/ AverageSimilarityRaises(w.stats)
    THEN {NoBest}
    ELSE {IF cfg.redis
          THEN [found |-> TRUE, ref |-> 0, entry |-> w.redis[k].val, tier |-> "scan"]
          ELSE [found |-> TRUE, ref |-> w.memCache[k],
                entry |-> w.heap[w.memCache[k]], tier |-> "scan"]
          : k \in keys}

\* _find_best_match: the best_match values it can return
FindBestMatch(w, q, company, role, provider, model, redisFails, t) ==
    ScanBests(w, IF cfg.redis
                 THEN IF redisFails THEN {}
                      ELSE RedisScanKeys(w, q, company, role, provider, model, t)
                 ELSE IF MemScanRaises(w, provider, model) THEN {}
                      ELSE MemScanKeys(w, q, provider, model))

----------------------------------------------------------------------------
(* SemanticCache: cache_response and get_cached_response *)

\* the objects an operation works on, as one record
World ==
    [redis |-> redis, memCache |-> memCache, memOrder |-> memOrder,
     heap |-> heap, sfaiss |-> sfaiss, chroma |-> chroma, mc |-> mc, cb |-> cb,
     stats |-> stats, reached |-> FALSE]

StatsInit ==
    [total_requests |-> 0, cache_hits |-> 0, cache_misses |-> 0,
     hit_ratio |-> <<0, 1>>]

\* update_hit_ratio: the ratio as the pair <<cache_hits, total_requests>>
UpdateHitRatio(st) ==
    IF st.total_requests > 0
    THEN [st EXCEPT !.hit_ratio = <<st.cache_hits, st.total_requests>>]
    ELSE st

\* the FAISS id map's record, with the vector added to the index
FaissRecord(e, key) ==
    [embedding |-> e.embedding, cache_key |-> key, company |-> e.company,
     role |-> e.role, model_provider |-> e.model_provider,
     model_name |-> e.model_name, quality_score |-> e.quality_score]

\* _memory_cache[key] = the object `ref`
MemCacheSet(w, key, ref) ==
    [w EXCEPT !.memCache = MapPut(@, key, ref),
              !.memOrder = IF key \in DOMAIN w.memCache THEN @ ELSE Append(@, key)]

\* the new CacheEntry stays alive where a tier holds the object itself: the
\* _memory_cache, or the vector database's memory cache
KeepEntry(v, e) ==
    IF ~cfg.redis \/ v.ok THEN [v.w EXCEPT !.heap = Append(@, e)] ELSE v.w

\* `return True` once the content store was written: what add_cache_entry
\* returned (vector_stored) only goes to the log line
CacheResponseReturnVectorStored(v) == v.ok

CacheResponseReturn(v) == TRUE

\* cache_response after the vector database's answer v
CacheResponseDone(v, e) ==
    [w |-> KeepEntry(v, e), ret |-> CacheResponseReturn(v)]

\* cache_response: w afterwards and the value returned.  The entry is written
\* with whatever quality score it has.
CacheResponse(w, r, fl, t) ==
    LET e == NewEntry(r, t)
        key == CreateCacheKey(e.company, e.role,
                              ContentHash(r.text, r.provider, r.model))
        ref == Len(w.heap) + 1
        w1 == IF cfg.redis
              THEN [w EXCEPT !.redis = RedisSetex(@, key, e, t)]
              ELSE MemCacheSet(w, key, ref)
        w2 == IF cfg.faiss /\ ~fl.annFails
              THEN [w1 EXCEPT !.sfaiss = Append(@, FaissRecord(e, key))]
              ELSE w1
    IN  IF fl.embedFails \/ r.pjd.none \/ (cfg.redis /\ fl.redisFails)
        THEN [w |-> w, ret |-> FALSE]
        ELSE CacheResponseDone(IF cfg.vdb
                               THEN VdbAddCacheEntry(w2, ref, e, r.text,
                                                     fl.chromaFails, t)
                               ELSE [w |-> w2, ok |-> FALSE],
                               e)

\* _update_cache_entry: the key is hashed from the entry's content; without
\* Redis every best_match is an object of the heap
UpdateCacheEntry(w, ref, e, redisFails, t) ==
    LET key == CreateCacheKey(e.company, e.role,
                   ContentHash(e.content, e.model_provider, e.model_name))
    IN  IF cfg.redis
        THEN IF redisFails THEN w
             ELSE [w EXCEPT !.redis = RedisSetex(@, key, e, t)]
        ELSE MemCacheSet(w, key, ref)

\* what a lookup ends in
Outcome(w, hit, raised, e, tier, threshold) ==
    [w |-> w, hit |-> hit, raised |-> raised, entry |-> e, tier |-> tier,
     threshold |-> threshold, found |-> NoEntry]

\* the tail of get_cached_response, from `if best_match:`
LookupFinishUncounted(w, best, threshold, redisFails, t) ==
    Outcome(w, FALSE, FALSE, NoEntry, "none", threshold)

LookupFinish(w, best, threshold, redisFails, t) ==
    LET e == [best.entry EXCEPT !.hit_count = @ + 1, !.last_accessed = t]
        w1 == IF best.ref > 0 THEN [w EXCEPT !.heap[best.ref] = e] ELSE w
        w2 == UpdateCacheEntry(w1, best.ref, e, redisFails, t)
    IN  IF best.found
        THEN [Outcome([w2 EXCEPT !.stats = UpdateHitRatio(
                                     [@ EXCEPT !.cache_hits = @ + 1])],
                      TRUE, FALSE, e, best.tier, threshold)
                EXCEPT !.found = best.entry]
        ELSE Outcome([w EXCEPT !.stats = UpdateHitRatio(
                                   [@ EXCEPT !.cache_misses = @ + 1])],
                     FALSE, FALSE, NoEntry, "none", threshold)

\* the outer `except Exception`: a miss is counted and None returned
LookupExcept(w) ==
    Outcome([w EXCEPT !.stats.cache_misses = @ + 1], FALSE, FALSE, NoEntry,
            "none", 0)

\* `company = parsed_jd.get("company", "unknown") if parsed_jd else "unknown"`
RequestCompany(pjd) ==
    IF PjdFalsy(pjd) THEN "unknown" ELSE PjdGet(pjd, "company", "unknown")

RequestRole(pjd) ==
    IF PjdFalsy(pjd) THEN "unknown" ELSE PjdGet(pjd, "role", "unknown")

\* get_cached_response from `if not best_match:` on: the scan of the content
\* store, then the tail; v is the world and best_match of the tiers before
LookupScan(v, r, fl, q, company, role, threshold, t) ==
    {LookupFinish(v.w, b, threshold, fl.redisFails, t) :
        b \in IF ~v.best.found
              THEN FindBestMatch(v.w, q, company, role, r.provider, r.model,
                                 fl.redisFails, t)
              ELSE {v.best}}

\* get_cached_response from `if not best_match and self.vector_db:` on; f is
\* the best_match of the FAISS search
LookupVectorDb(w, f, r, fl, q, company, role, threshold, t) ==
    LookupScan(IF ~f.found /\ cfg.vdb
               THEN FindBestMatchVectorDb(w, r.text, company, role, r.provider,
                                          r.model, threshold, fl.chromaFails,
                                          fl.redisFails, t)
               ELSE [w |-> w, best |-> f],
               r, fl, q, company, role, threshold, t)

\* get_cached_response from `if self.faiss_index and self.faiss_index.ntotal > 0:`
LookupFaiss(w, r, fl, q, company, role, threshold, t) ==
    LookupVectorDb(w,
                   IF cfg.faiss /\ Len(w.sfaiss) > 0
                   THEN FindBestMatchFaiss(w, q, company, role, r.provider,
                                           r.model, threshold, fl.annFails, t)
                   ELSE NoBest,
                   r, fl, q, company, role, threshold, t)

\* get_cached_response: the outcomes it can end in
GetCachedResponse(w, r, fl, t) ==
    IF fl.embedFails
    THEN {LookupExcept([w EXCEPT !.stats.total_requests = @ + 1])}
    ELSE LookupFaiss([w EXCEPT !.stats.total_requests = @ + 1], r, fl,
                     Embed(r.text), RequestCompany(r.pjd), RequestRole(r.pjd),
                     DynamicThreshold(r.pjd,
                                      IF cfg.faiss THEN Len(w.sfaiss) ELSE 0),
                     t)

\* clear_cache: the keys of the content store are deleted and the statistics
\* replaced; nothing else is touched.  A Redis error ends in `return False`.
ClearCache(w, redisFails) ==
    IF cfg.redis
    THEN IF redisFails THEN [w |-> w, ret |-> FALSE]
         ELSE [w |-> [w EXCEPT !.redis = EmptyMap, !.stats = StatsInit],
               ret |-> TRUE]
    ELSE [w |-> [w EXCEPT !.memCache = EmptyMap, !.memOrder = << >>,
                          !.stats = StatsInit],
          ret |-> TRUE]

\* the number of entries of each tier
TierSizes(w) ==
    [content |-> IF cfg.redis THEN Cardinality(DOMAIN w.redis)
                 ELSE Cardinality(DOMAIN w.memCache),
     ann |-> Len(w.sfaiss),
     persistent |-> Len(w.chroma),
     memory |-> MCSize(w.mc)]

----------------------------------------------------------------------------
(* Cache warming and preloading of the VectorDatabase *)

\* _generate_warming_templates: jd_templates[:3] per company and role
WarmTemplates == <<"w1", "w2", "w3">>

\* the text _preload_pattern searches for
PreloadText == "pl"

\* the provider and model that warming and preloading hard-code
WarmProvider == "openai"

WarmModel == "gpt-4o"

\* role_skills.get(role.lower(), [..])[:3] for a role that is not in role_skills
WarmSkills == {"Communication", "Problem Solving", "Teamwork"}

\* a warming template, read as a parsed job description
WarmPjd(company, role) ==
    [PjdNone EXCEPT !.none = FALSE, !.keys = {"company", "role", "skills"},
                    !.company = company, !.role = role, !.skills = WarmSkills]

\* the text of _warm_cache_entry's synthetic entry: it names the role, the
\* company and the three skills
WarmContent == "cw"

\* _warm_cache_entry's synthetic CacheEntry
WarmEntry(company, role, t) ==
    [content |-> WarmContent, embedding |-> NoEmbedding, company |-> company,
     role |-> role, model_provider |-> WarmProvider, model_name |-> WarmModel,
     created_at |-> t, hit_count |-> 0, last_accessed |-> 0,
     quality_score |-> 90]

\* warm_cache's counters before the first template
WarmStart(w) == [w |-> w, warmed_entries |-> 0, failed_entries |-> 0]

\* the loop over batch_results: _warm_cache_entry returned 1 or 0 (it catches
\* every exception itself), so `warmed_entries += result`
WarmCount(s, v, e) ==
    [w |-> IF v.ok THEN [v.w EXCEPT !.heap = Append(@, e)] ELSE v.w,
     warmed_entries |-> s.warmed_entries + (IF v.ok THEN 1 ELSE 0),
     failed_entries |-> s.failed_entries]

\* VectorDatabase.warm_cache for one company and one role, from template i on:
\* the world and the counters of the statistics returned
RECURSIVE VdbWarmCache(_, _, _, _, _, _)
VdbWarmCache(s, i, company, role, chromaFails, t) ==
    IF i > Len(WarmTemplates) THEN s
    ELSE VdbWarmCache(WarmCount(s,
                                VdbAddCacheEntry(s.w, Len(s.w.heap) + 1,
                                                 WarmEntry(company, role, t),
                                                 WarmTemplates[i], chromaFails, t),
                                WarmEntry(company, role, t)),
                      i + 1, company, role, chromaFails, t)

\* `best_result.similarity *= (1.0 + popularity_score * 0.1)`
PreloadBoost(similarity, score) == (similarity * (100 + score * 10)) \div 100

\* preload_popular_patterns for one pattern: the probe of the memory cache,
\* then _preload_pattern
VdbPreloadPattern(w, company, role, score, chromaFails, t) ==
    LET key == VdbCacheKey(company, role, WarmProvider, t)
        w1 == [w EXCEPT !.mc = MCGet(@, key, t)]
        adm == CBAdmit(w1.cb, t)
        best == IF adm.admitted /\ ~chromaFails
                THEN ChromaBest(w1.chroma, PreloadText, WarmProvider, WarmModel,
                                company, role, 80)
                ELSE 0
        cb2 == IF ~adm.admitted THEN adm.cb
               ELSE IF chromaFails THEN CBOnFailure(adm.cb, t)
               ELSE CBOnSuccess(adm.cb)
        found == [entry |-> Len(w1.heap) + 1,
                  similarity |-> PreloadBoost(ChromaSimilarity(ChromaDistance(
                                     PreloadText, w1.chroma[best].doc)), score)]
    IN  IF MCHas(w.mc, key) THEN w1
        ELSE IF best = 0 THEN [w1 EXCEPT !.cb = cb2, !.reached = adm.admitted]
        ELSE [w1 EXCEPT !.cb = cb2,
                        !.reached = TRUE,
                        !.heap = Append(@, ChromaEntry(w1.chroma[best])),
                        !.mc = MCPut(@, key, found, t)]

----------------------------------------------------------------------------
(* The SemanticCache before any operation *)

Faults == [embedFails : BOOLEAN, redisFails : BOOLEAN, annFails : BOOLEAN,
           chromaFails : BOOLEAN]

NoFaults ==
    [embedFails |-> FALSE, redisFails |-> FALSE, annFails |-> FALSE,
     chromaFails |-> FALSE]

NoPrev ==
    [op |-> "none", ret |-> FALSE, text |-> "", pjd |-> PjdNone,
     provider |-> "", model |-> "", content |-> "", fl |-> NoFaults]

NoOp ==
    [op |-> "none", text |-> "", pjd |-> PjdNone, provider |-> "", model |-> "",
     content |-> "", fl |-> NoFaults, ret |-> FALSE, hit |-> FALSE,
     raised |-> FALSE, entry |-> NoEntry, found |-> NoEntry, tier |-> "none",
     threshold |-> 0,
     quality |-> 0, changed |-> FALSE, missCounted |-> FALSE, cbOpen |-> FALSE,
     reached |-> FALSE, count |-> 0, failed |-> 0,
     memHolds |-> FALSE, annHolds |-> FALSE, hitsBefore |-> 0,
     sizes |-> [content |-> 0, ann |-> 0, persistent |-> 0, memory |-> 0],
     prev |-> NoPrev]

\* the tasks of the event loop that run get_cached_response
NLookups == 2

ScTasks == 1..NLookups

\* a task that is not inside get_cached_response
ScIdle ==
    [at |-> "idle", text |-> "", pjd |-> PjdNone, provider |-> "", model |-> ""]

\* __init__: which of Redis, the FAISS index and the VectorDatabase came up
ScInit(c) ==
    /\ cfg = c
    /\ redis = EmptyMap
    /\ memCache = EmptyMap
    /\ memOrder = << >>
    /\ heap = << >>
    /\ sfaiss = << >>
    /\ chroma = << >>
    /\ stats = StatsInit
    /\ scPc = [task \in ScTasks |-> ScIdle]
    /\ last = NoOp
    /\ ops = [done |-> 0, faulty |-> 0]

CfgDefault ==
    [redis |-> TRUE, faiss |-> TRUE, vdb |-> TRUE, min_quality_score |-> 70,
     similarity_threshold |-> SimilarityThreshold]

----------------------------------------------------------------------------
(* SpecCB: CircuitBreaker.call under concurrent callers *)

CBNoEvent ==
    [kind |-> "none", thread |-> 0, pre |-> CBInit, post |-> CBInit, at |-> 0,
     started |-> FALSE, trial |-> FALSE]

\* no call was admitted since the breaker became HALF_OPEN (or it is not)
CBNoTrials == [admitted |-> 0, running |-> {}]

\* the trial calls after a critical section that leaves the breaker as b
CBTrials(b, h) == IF b.state = "HALF_OPEN" THEN h ELSE CBNoTrials

MCNoEvent ==
    [op |-> "none", key |-> "k1", value |-> "v1", pre |-> MCNew(1, "LRU"),
     post |-> MCNew(1, "LRU"), hit |-> FALSE, seen |-> MCSeenInit,
     seenPre |-> MCSeenInit]

InitCB ==
    /\ now = 0
    /\ cb = CBInit
    /\ cbPc = [t \in CBThreads |-> "idle"]
    /\ cbRun = 0
    /\ cbRunStart = "CLOSED"
    /\ cbLast = CBNoEvent
    /\ cbHalf = CBNoTrials
    /\ mc = MCNew(1, "LRU")
    /\ mcLock = 0
    /\ mcPc = [t \in MCThreads |-> [at |-> "idle"]]
    /\ mcLast = MCNoEvent
    /\ ScInit(CfgDefault)

\* a thread enters call: admitted to func, or rejected with an exception
CBEnter(t) ==
    /\ cbPc[t] = "idle"
    /\ LET r == CBAdmit(cb, now)
       IN  /\ cb' = r.cb
           /\ cbPc' = [cbPc EXCEPT ![t] = IF r.admitted THEN "running" ELSE "idle"]
           /\ cbLast' = [kind |-> IF r.admitted THEN "admit" ELSE "reject",
                         thread |-> t, pre |-> cb, post |-> r.cb, at |-> now,
                         started |-> r.admitted,
                         trial |-> r.admitted /\ r.cb.state = "HALF_OPEN"]
           /\ cbHalf' = CBTrials(r.cb,
                           IF r.admitted
                           THEN [admitted |-> cbHalf.admitted + 1,
                                 running |-> cbHalf.running \cup {t}]
                           ELSE cbHalf)
    /\ UNCHANGED <<now, cbRun, cbRunStart, mc, mcHist, scVars>>

\* func returned
CBSucceed(t) ==
    /\ cbPc[t] = "running"
    /\ cb' = CBOnSuccess(cb)
    /\ cbPc' = [cbPc EXCEPT ![t] = "idle"]
    /\ cbRun' = 0
    /\ cbRunStart' = cb'.state
    /\ cbLast' = [kind |-> "success", thread |-> t, pre |-> cb, post |-> cb',
                  at |-> now, started |-> FALSE, trial |-> t \in cbHalf.running]
    /\ cbHalf' = CBTrials(cb', [cbHalf EXCEPT !.running = @ \ {t}])
    /\ UNCHANGED <<now, mc, mcHist, scVars>>

\* func raised
CBFail(t) ==
    /\ cbPc[t] = "running"
    /\ cb' = CBOnFailure(cb, now)
    /\ cbPc' = [cbPc EXCEPT ![t] = "idle"]
    /\ cbRun' = cbRun + 1
    /\ cbRunStart' = IF cbRun = 0 THEN cb.state ELSE cbRunStart
    /\ cbLast' = [kind |-> "failure", thread |-> t, pre |-> cb, post |-> cb',
                  at |-> now, started |-> FALSE, trial |-> t \in cbHalf.running]
    /\ cbHalf' = CBTrials(cb', [cbHalf EXCEPT !.running = @ \ {t}])
    /\ UNCHANGED <<now, mc, mcHist, scVars>>

CBTick ==
    /\ now < MaxNow
    /\ now' = now + 1
    /\ UNCHANGED <<cb, cbHist, mc, mcHist, scVars>>

NextCB ==
    \/ \E t \in CBThreads : CBEnter(t)
    \/ \E t \in CBThreads : CBSucceed(t)
    \/ \E t \in CBThreads : CBFail(t)
    \/ CBTick

SpecCB == InitCB /\ [][NextCB]_vars

\* SpecCBLive: the guarded function fails only early on; then time keeps
\* advancing, callers keep calling and every call that was admitted returns
CBFailUntil == MaxNow - RecoveryTimeout - 1

\* func raised, while the guarded function still fails
CBFailEarly(t) == now <= CBFailUntil /\ CBFail(t)

NextCBLive ==
    \/ \E t \in CBThreads : CBEnter(t)
    \/ \E t \in CBThreads : CBSucceed(t)
    \/ \E t \in CBThreads : CBFailEarly(t)
    \/ CBTick

SpecCBLive ==
    /\ InitCB
    /\ [][NextCBLive]_vars
    /\ WF_vars(CBTick)
    /\ \A t \in CBThreads : WF_vars(CBEnter(t)) /\ WF_vars(CBSucceed(t))

----------------------------------------------------------------------------
(* SpecMC: MemoryCache.get / put under concurrent threads *)

MaxMCSize == 2

InitMC ==
    /\ now = 0
    /\ cb = CBInit
    /\ cbPc = [t \in CBThreads |-> "idle"]
    /\ cbRun = 0
    /\ cbRunStart = "CLOSED"
    /\ cbLast = CBNoEvent
    /\ cbHalf = CBNoTrials
    /\ \E n \in 1..MaxMCSize : \E p \in MCPolicies : mc = MCNew(n, p)
    /\ mcLock = 0
    /\ mcPc = [t \in MCThreads |-> [at |-> "idle"]]
    /\ mcLast = MCNoEvent
    /\ ScInit(CfgDefault)

\* get, one critical section
MCGetOp(t, k) ==
    /\ mcPc[t].at = "idle"
    /\ MCLockAvailable
    /\ now < MaxMCOps
    /\ mc' = MCGet(mc, k, now)
    /\ now' = now + 1
    /\ mcLast' = [op |-> "get", key |-> k, value |-> MCGetValue(mc, k),
                  pre |-> mc, post |-> mc', hit |-> MCHas(mc, k),
                  seen |-> MCSeenGet(mcLast.seen, mc, k, now),
                  seenPre |-> mcLast.seen]
    /\ UNCHANGED <<cb, cbHist, mcLock, mcPc, scVars>>

\* put takes the lock and evicts if needed
MCPutBegin(t, k, v) ==
    /\ mcPc[t].at = "idle"
    /\ MCLockAvailable
    /\ now < MaxMCOps
    /\ mcLock' = t
    /\ mc' = IF MCNeedsEvict(mc, k) THEN MCEvictOne(mc) ELSE mc
    /\ mcPc' = [mcPc EXCEPT ![t] = [at |-> "insert", key |-> k, value |-> v,
                                    pre |-> mc]]
    /\ UNCHANGED <<now, cb, cbHist, mcLast, scVars>>

\* put inserts and releases the lock
MCPutEnd(t) ==
    /\ mcPc[t].at = "insert"
    /\ mc' = MCInsert(mc, mcPc[t].key, mcPc[t].value, now)
    /\ now' = now + 1
    /\ mcLock' = IF mcLock = t THEN 0 ELSE mcLock
    /\ mcPc' = [mcPc EXCEPT ![t] = [at |-> "idle"]]
    /\ mcLast' = [op |-> "put", key |-> mcPc[t].key, value |-> mcPc[t].value,
                  pre |-> mcPc[t].pre, post |-> mc',
                  hit |-> MCHas(mcPc[t].pre, mcPc[t].key),
                  seen |-> MCSeenPut(mcLast.seen, mcPc[t].pre, mc', mcPc[t].key,
                                     now),
                  seenPre |-> mcLast.seen]
    /\ UNCHANGED <<cb, cbHist, scVars>>

NextMC ==
    \/ \E t \in MCThreads, k \in MCKeys : MCGetOp(t, k)
    \/ \E t \in MCThreads, k \in MCKeys, v \in MCValues : MCPutBegin(t, k, v)
    \/ \E t \in MCThreads : MCPutEnd(t)

SpecMC == InitMC /\ [][NextMC]_vars

----------------------------------------------------------------------------
(* Spec: the SemanticCache over its tiers *)

\* operations on the cache in one behaviour, and those among them in which a
\* tier fails
MaxOps == 3

MaxFaulty == 1

\* the requests: job texts, parsed job descriptions, generation backends
Pjds == {PjdEmpty, PjdAcme}

Backends ==
    {<<"openai", "gpt-4o">>, <<"openai", "gpt-4">>, <<"anthropic", "claude-3">>}

\* the ContentGenerator's cover letter for a job text
Generate(text) == IF text = "jd1" THEN "c1" ELSE "c2"

PopularityScores == {0, 1}

MinQualityScores == {70, 90}

Configs ==
    [redis : BOOLEAN, faiss : BOOLEAN, vdb : BOOLEAN,
     min_quality_score : MinQualityScores,
     similarity_threshold : {SimilarityThreshold}]

\* the configurations of SpecFaults: the default quality floor
FConfigs == {c \in Configs : c.min_quality_score = CfgDefault.min_quality_score}

\* the failures an operation can meet: only of tiers that were initialised
FaultChoices ==
    IF ops.faulty >= MaxFaulty THEN {NoFaults}
    ELSE {fl \in Faults : /\ fl.redisFails => cfg.redis
                          /\ fl.annFails => cfg.faiss
                          /\ fl.chromaFails => cfg.vdb
                          /\ fl.embedFails =>
                               ~(fl.redisFails \/ fl.annFails \/ fl.chromaFails)}

Count(fl) ==
    [done |-> ops.done + 1,
     faulty |-> IF fl = NoFaults THEN ops.faulty ELSE ops.faulty + 1]

Prev ==
    [op |-> last.op, ret |-> last.ret, text |-> last.text, pjd |-> last.pjd,
     provider |-> last.provider, model |-> last.model, content |-> last.content,
     fl |-> last.fl]

\* an operation changed one of the cache's objects
Changed(w) == [w EXCEPT !.reached = FALSE] # World

\* the breaker is OPEN and its recovery timeout has not elapsed
BreakerOpen == cfg.vdb /\ cb.state = "OPEN" /\ ~CBRecoveryElapsed(cb, now)

Apply(w) ==
    /\ redis' = w.redis
    /\ memCache' = w.memCache
    /\ memOrder' = w.memOrder
    /\ heap' = w.heap
    /\ sfaiss' = w.sfaiss
    /\ chroma' = w.chroma
    /\ mc' = w.mc
    /\ cb' = w.cb
    /\ stats' = w.stats

Init ==
    /\ now = 0
    /\ cb = CBInit
    /\ cbPc = [t \in CBThreads |-> "idle"]
    /\ cbRun = 0
    /\ cbRunStart = "CLOSED"
    /\ cbLast = CBNoEvent
    /\ cbHalf = CBNoTrials
    /\ mc = MCNew(VdbMemoryCacheSize, "LRU")
    /\ mcLock = 0
    /\ mcPc = [t \in MCThreads |-> [at |-> "idle"]]
    /\ mcLast = MCNoEvent
    /\ \E c \in Configs : ScInit(c)

\* cache_response(jd_text, response_content, parsed_jd, provider, model, ..)
Store(text, pjd, backend, fl) ==
    LET r == [text |-> text, pjd |-> pjd, provider |-> backend[1],
              model |-> backend[2], content |-> Generate(text)]
    IN  /\ ops.done < MaxOps
        /\ \E res \in {CacheResponse(World, r, fl, now)} :
             /\ Apply(res.w)
             /\ last' = [NoOp EXCEPT
                           !.op = "store", !.text = text, !.pjd = pjd,
                           !.provider = r.provider, !.model = r.model,
                           !.content = r.content, !.fl = fl, !.ret = res.ret,
                           !.quality = QualityScore(r.content, pjd),
                           !.cbOpen = BreakerOpen, !.reached = res.w.reached,
                           !.sizes = TierSizes(World),
                           !.changed = Changed(res.w), !.prev = Prev]
        /\ ops' = Count(fl)
        /\ UNCHANGED <<now, cbHist, mcHist, cfg, scPc>>

\* the vector database's memory tier holds a result that serves the request
MemoryTierHolds(w, r, threshold, t) ==
    LET key == VdbCacheKey(RequestCompany(r.pjd), RequestRole(r.pjd),
                           r.provider, t)
    IN  /\ cfg.vdb
        /\ MCHas(w.mc, key)
        /\ MemoryResultServes(w.heap[w.mc.cache[key].value.entry],
                              w.mc.cache[key].value, r.provider, r.model,
                              threshold)
        /\ w.heap[w.mc.cache[key].value.entry].content # ""

\* the FAISS index holds a vector that serves the request, its entry readable
AnnIndexHolds(w, r, threshold, t) ==
    /\ cfg.faiss
    /\ \E i \in 1..Len(w.sfaiss) :
         /\ w.sfaiss[i].model_provider = r.provider
         /\ w.sfaiss[i].model_name = r.model
         /\ CosSim(Embed(r.text), w.sfaiss[i].embedding) >= threshold
         /\ StoreGet(w, w.sfaiss[i].cache_key, t).found

\* get_cached_response(jd_text, provider, model, parsed_jd)
Lookup(text, pjd, backend, fl) ==
    LET r == [text |-> text, pjd |-> pjd, provider |-> backend[1],
              model |-> backend[2]]
        threshold == DynamicThreshold(pjd, IF cfg.faiss THEN Len(sfaiss) ELSE 0)
    IN  /\ ops.done < MaxOps
        /\ \E res \in GetCachedResponse(World, r, fl, now) :
             /\ Apply(res.w)
             /\ last' = [NoOp EXCEPT
                           !.op = "lookup", !.text = text, !.pjd = pjd,
                           !.provider = r.provider, !.model = r.model,
                           !.fl = fl, !.hit = res.hit, !.raised = res.raised,
                           !.entry = res.entry, !.found = res.found,
                           !.tier = res.tier,
                           !.threshold = res.threshold,
                           !.missCounted =
                              (res.w.stats.cache_misses = stats.cache_misses + 1),
                           !.cbOpen = BreakerOpen, !.reached = res.w.reached,
                           !.memHolds = MemoryTierHolds(World, r, threshold, now),
                           !.annHolds = AnnIndexHolds(World, r, threshold, now),
                           !.hitsBefore = stats.cache_hits,
                           !.sizes = TierSizes(World),
                           !.changed = Changed(res.w), !.prev = Prev]
        /\ ops' = Count(fl)
        /\ UNCHANGED <<now, cbHist, mcHist, cfg, scPc>>

\* warm_cache([company], [role]): without a vector database it writes only
\* `template:` keys to Redis, which no lookup reads
Warm(company, role, fl) ==
    /\ ops.done < MaxOps
    /\ cfg.vdb
    /\ \E res \in {VdbWarmCache(WarmStart(World), 1, company, role,
                                  fl.chromaFails, now)} :
         /\ Apply(res.w)
         /\ last' = [NoOp EXCEPT !.op = "warm", !.fl = fl, !.ret = TRUE,
                                 !.count = res.warmed_entries,
                                 !.failed = res.failed_entries,
                                 !.cbOpen = BreakerOpen,
                                 !.reached = res.w.reached, !.prev = Prev]
    /\ ops' = Count(fl)
    /\ UNCHANGED <<now, cbHist, mcHist, cfg, scPc>>

\* preload_popular_patterns with one (company, role) pattern of the given score
Preload(company, role, score, fl) ==
    /\ ops.done < MaxOps
    /\ cfg.vdb
    /\ \E w \in {VdbPreloadPattern(World, company, role, score,
                                    fl.chromaFails, now)} :
         /\ Apply(w)
         /\ last' = [NoOp EXCEPT !.op = "preload", !.fl = fl,
                                 !.cbOpen = BreakerOpen, !.reached = w.reached,
                                 !.prev = Prev]
    /\ ops' = Count(fl)
    /\ UNCHANGED <<now, cbHist, mcHist, cfg, scPc>>

\* clear_cache()
Clear(fl) ==
    /\ ops.done < MaxOps
    /\ \E res \in {ClearCache(World, fl.redisFails)} :
         /\ Apply(res.w)
         /\ last' = [NoOp EXCEPT !.op = "clear", !.fl = fl, !.ret = res.ret,
                                 !.sizes = TierSizes(World),
                                 !.changed = Changed(res.w), !.prev = Prev]
    /\ ops' = Count(fl)
    /\ UNCHANGED <<now, cbHist, mcHist, cfg, scPc>>

\* vector_db.update_hit_count(entry_id)
HitCount(i, fl) ==
    /\ ops.done < MaxOps
    /\ cfg.vdb
    /\ \E res \in {VdbUpdateHitCount(World, i, fl.chromaFails, now)} :
         /\ Apply(res.w)
         /\ last' = [NoOp EXCEPT !.op = "hitcount", !.fl = fl, !.ret = res.ret,
                                 !.cbOpen = BreakerOpen,
                                 !.reached = res.w.reached, !.prev = Prev]
    /\ ops' = Count(fl)
    /\ UNCHANGED <<now, cbHist, mcHist, cfg, scPc>>

\* vector_db.cleanup_old_entries(max_age)
Cleanup(max_age, fl) ==
    /\ ops.done < MaxOps
    /\ cfg.vdb
    /\ \E res \in {VdbCleanupOldEntries(World, max_age, fl.chromaFails, now)} :
         /\ Apply(res.w)
         /\ last' = [NoOp EXCEPT !.op = "cleanup", !.fl = fl,
                                 !.count = res.count, !.cbOpen = BreakerOpen,
                                 !.reached = res.w.reached, !.prev = Prev]
    /\ ops' = Count(fl)
    /\ UNCHANGED <<now, cbHist, mcHist, cfg, scPc>>

\* vector_db.get_statistics()
Statistics(fl) ==
    /\ ops.done < MaxOps
    /\ cfg.vdb
    /\ \E res \in {VdbGetStatistics(World, fl.chromaFails)} :
         /\ Apply(res.w)
         /\ last' = [NoOp EXCEPT !.op = "statistics", !.fl = fl,
                                 !.ret = res.ret, !.count = res.count,
                                 !.cbOpen = BreakerOpen,
                                 !.reached = res.w.reached, !.prev = Prev]
    /\ ops' = Count(fl)
    /\ UNCHANGED <<now, cbHist, mcHist, cfg, scPc>>

\* the time that passes at once: a tick, or more than the TTL
TickSteps == {1, TtlTicks + 1}

\* time passes between two operations
Tick(d) ==
    /\ ops.done < MaxOps
    /\ now + d <= MaxNow
    /\ now' = now + d
    /\ last' = [NoOp EXCEPT !.op = "tick", !.prev = Prev]
    /\ ops' = Count(NoFaults)
    /\ UNCHANGED <<cb, cbHist, mc, mcHist, cfg, redis, memCache, memOrder, heap,
                   sfaiss, chroma, stats, scPc>>

\* cleanup_old_entries' max_age, in ticks
MaxAgeTicks == 1

\* a write meets the failure of at most one tier
StoreFaults ==
    {fl \in FaultChoices :
        Cardinality({f \in DOMAIN fl : fl[f]}) <= 1}

\* the failures that reach only Redis
RedisFaults == {fl \in FaultChoices : ~(fl.embedFails \/ fl.chromaFails \/ fl.annFails)}

\* the failures that reach only the vector database
ChromaFaults == {fl \in FaultChoices : ~(fl.embedFails \/ fl.redisFails \/ fl.annFails)}

\* every tier that was initialised works
Next ==
    \/ \E text \in Texts, pjd \in Pjds, b \in Backends :
         Store(text, pjd, b, NoFaults)
    \/ \E text \in Texts, pjd \in Pjds, b \in Backends :
         Lookup(text, pjd, b, NoFaults)
    \/ Warm("Acme", "SWE", NoFaults)
    \/ \E s \in PopularityScores : Preload("Acme", "SWE", s, NoFaults)
    \/ Clear(NoFaults)
    \/ \E d \in TickSteps : Tick(d)

Spec == Init /\ [][Next]_vars

----------------------------------------------------------------------------
(* SpecAnn: _find_best_match_faiss over the entries that were stored *)

\* job texts of which two are close (similarity 0.92), and the thresholds
\* handed to the search
AnnTexts == {"jd1", "jd2"}

AnnThresholds == {SimilarityThreshold, 93}

InitAnn == Init /\ cfg.faiss /\ cfg.min_quality_score = CfgDefault.min_quality_score

\* _find_best_match_faiss(query_embedding, company, role, provider, model, threshold)
AnnSearch(text, pjd, backend, threshold) ==
    /\ ops.done < MaxOps
    /\ \E best \in {FindBestMatchFaiss(World, Embed(text), RequestCompany(pjd),
                                       RequestRole(pjd), backend[1], backend[2],
                                       threshold, FALSE, now)} :
         last' = [NoOp EXCEPT !.op = "ann", !.text = text, !.pjd = pjd,
                              !.provider = backend[1], !.model = backend[2],
                              !.threshold = threshold, !.hit = best.found,
                              !.entry = best.entry, !.prev = Prev]
    /\ ops' = Count(NoFaults)
    /\ UNCHANGED <<now, cb, cbHist, mc, mcHist, cfg, redis, memCache, memOrder,
                   heap, sfaiss, chroma, stats, scPc>>

NextAnn ==
    \/ \E text \in AnnTexts, pjd \in Pjds, b \in Backends :
         Store(text, pjd, b, NoFaults)
    \/ \E text \in AnnTexts, pjd \in Pjds, b \in Backends, th \in AnnThresholds :
         AnnSearch(text, pjd, b, th)

SpecAnn == InitAnn /\ [][NextAnn]_vars

----------------------------------------------------------------------------
(* SpecStats: get_cached_response tasks and clear_cache on one event loop *)

StatsTexts == {"jd1"}

StatsBackends == {<<"openai", "gpt-4o">>}

InitStats == Init /\ cfg = CfgDefault

\* get_cached_response gives the event loop away: its search goes as far as
\* _search_chromadb, which awaits run_in_executor (with the breaker CLOSED, as
\* it stays without failures, `reached` records just that)
LookupSuspends(w, r, t) ==
    \E res \in GetCachedResponse(w, r, NoFaults, t) : res.w.reached

\* get_cached_response up to the await of the executor: `total_requests += 1`
LookupBegin(task, text, pjd, backend) ==
    LET r == [text |-> text, pjd |-> pjd, provider |-> backend[1],
              model |-> backend[2]]
    IN  /\ ops.done < MaxOps
        /\ scPc[task].at = "idle"
        /\ LookupSuspends(World, r, now)
        /\ stats' = [stats EXCEPT !.total_requests = @ + 1]
        /\ scPc' = [scPc EXCEPT ![task] = [at |-> "searching"] @@ r]
        /\ last' = [NoOp EXCEPT !.op = "begin", !.text = text, !.pjd = pjd,
                                !.provider = r.provider, !.model = r.model,
                                !.prev = Prev]
        /\ ops' = Count(NoFaults)
        /\ UNCHANGED <<now, cb, cbHist, mc, mcHist, cfg, redis, memCache,
                       memOrder, heap, sfaiss, chroma>>

\* get_cached_response from the return of the executor's search: the tiers'
\* answer on the objects as they are now, then the hit or the miss branch
LookupResume(task) ==
    LET r == scPc[task]
    IN  /\ r.at = "searching"
        /\ \E res \in LookupFaiss(World, r, NoFaults, Embed(r.text),
                                   RequestCompany(r.pjd), RequestRole(r.pjd),
                                   DynamicThreshold(r.pjd, Len(sfaiss)), now) :
             /\ Apply(res.w)
             /\ last' = [NoOp EXCEPT
                           !.op = "resume", !.text = r.text, !.pjd = r.pjd,
                           !.provider = r.provider, !.model = r.model,
                           !.hit = res.hit, !.entry = res.entry,
                           !.tier = res.tier, !.prev = Prev]
        /\ scPc' = [scPc EXCEPT ![task] = ScIdle]
        /\ UNCHANGED <<now, cbHist, mcHist, cfg, ops>>

\* a get_cached_response that the memory tier answers: it never awaits the
\* executor and runs to its end in one turn of the event loop
LookupDirect(text, pjd, backend) ==
    /\ ~LookupSuspends(World, [text |-> text, pjd |-> pjd,
                               provider |-> backend[1], model |-> backend[2]],
                       now)
    /\ Lookup(text, pjd, backend, NoFaults)

NextStats ==
    \/ \E text \in StatsTexts, pjd \in Pjds, b \in StatsBackends :
         Store(text, pjd, b, NoFaults)
    \/ \E task \in ScTasks, text \in StatsTexts, pjd \in Pjds,
          b \in StatsBackends :
         LookupBegin(task, text, pjd, b)
    \/ \E task \in ScTasks : LookupResume(task)
    \/ \E text \in StatsTexts, pjd \in Pjds, b \in StatsBackends :
         LookupDirect(text, pjd, b)
    \/ Clear(NoFaults)

SpecStats == InitStats /\ [][NextStats]_vars

----------------------------------------------------------------------------
(* SpecFaults: the SemanticCache with every tier, and tiers that fail *)

InitFaults == Init /\ cfg \in FConfigs

NextFaults ==
    \/ \E text \in Texts, pjd \in Pjds, b \in Backends, fl \in StoreFaults :
         Store(text, pjd, b, fl)
    \/ \E text \in Texts, pjd \in Pjds, b \in Backends, fl \in FaultChoices :
         Lookup(text, pjd, b, fl)
    \/ \E fl \in ChromaFaults : Warm("Acme", "SWE", fl)
    \/ \E s \in PopularityScores, fl \in ChromaFaults : Preload("Acme", "SWE", s, fl)
    \/ \E fl \in RedisFaults : Clear(fl)
    \/ \E fl \in ChromaFaults : HitCount(1, fl)
    \/ \E fl \in ChromaFaults : Cleanup(MaxAgeTicks, fl)
    \/ \E fl \in ChromaFaults : Statistics(fl)
    \/ \E d \in TickSteps : Tick(d)

SpecFaults == InitFaults /\ [][NextFaults]_vars

----------------------------------------------------------------------------
(* SpecThreshold: _calculate_dynamic_threshold over its inputs *)

\* the configured CacheConfig.similarity_threshold values
BaseThresholds == {60, 70, SimilarityThreshold, 95, 99}

\* request contexts: None, {}, and dicts with every key the function reads
ThresholdPjds ==
    {PjdNone, PjdEmpty} \cup
    {[PjdNone EXCEPT !.none = FALSE,
                     !.keys = {"complexity", "job_level", "industry_type",
                               "n_required", "n_preferred"},
                     !.complexity = cx, !.job_level = jl,
                     !.industry_type = ind, !.n_required = nr] :
        cx \in {"SIMPLE", "COMPLEX"}, jl \in {"senior", "entry"},
        ind \in {"tech", "creative"}, nr \in {0, 10}}

\* cache_size: cold, neither, warm
CacheSizes == {0, 100, 5001}

InitThreshold ==
    /\ now = 0
    /\ cb = CBInit
    /\ cbPc = [t \in CBThreads |-> "idle"]
    /\ cbRun = 0
    /\ cbRunStart = "CLOSED"
    /\ cbLast = CBNoEvent
    /\ cbHalf = CBNoTrials
    /\ mc = MCNew(1, "LRU")
    /\ mcLock = 0
    /\ mcPc = [t \in MCThreads |-> [at |-> "idle"]]
    /\ mcLast = MCNoEvent
    /\ \E b \in BaseThresholds :
         ScInit([CfgDefault EXCEPT !.similarity_threshold = b])

\* one call of _calculate_dynamic_threshold(parsed_jd, provider, cache_size)
CalculateDynamicThreshold(pjd, cache_size) ==
    /\ last' = [NoOp EXCEPT !.op = "threshold", !.pjd = pjd,
                            !.threshold = DynamicThreshold(pjd, cache_size),
                            !.hitsBefore = cache_size]
    /\ UNCHANGED <<now, cb, cbHist, mc, mcHist, cfg, redis, memCache, memOrder,
                   heap, sfaiss, chroma, stats, scPc, ops>>

NextThreshold ==
    \E pjd \in ThresholdPjds, n \in CacheSizes :
        CalculateDynamicThreshold(pjd, n)

SpecThreshold == InitThreshold /\ [][NextThreshold]_vars

----------------------------------------------------------------------------
(* Properties of the SemanticCache, under Spec and SpecFaults *)

\* the lookup repeats the request of the store that has just returned True
LookupRepeatsStore(e) ==
    /\ e.op = "lookup"
    /\ e.prev.op = "store"
    /\ e.prev.ret
    /\ e.prev.text = e.text
    /\ e.prev.pjd = e.pjd
    /\ e.prev.provider = e.provider
    /\ e.prev.model = e.model

\* C1: a lookup that immediately follows a successful store of content C, with
\* the same text, parsed job description, provider and model, returns an entry
\* whose content is C, in every configuration of tiers and also when it is the
\* first hit of the cache.
C1_RoundTrip ==
    LookupRepeatsStore(last) =>
        /\ last.hit
        /\ last.entry.content = last.prev.content

\* C2: a lookup for provider P and model M never returns an entry whose
\* model_provider is not P or whose model_name is not M.
C2_ModelIsolation ==
    (last.op = "lookup" /\ last.hit) =>
        /\ last.entry.model_provider = last.provider
        /\ last.entry.model_name = last.model

\* a lookup was served while the vector store also held, for the same company
\* and role and provider, an entry generated by another model
C2_Witness ==
    /\ last.op = "lookup"
    /\ last.hit
    /\ \E i \in 1..Len(chroma) :
         /\ chroma[i].company = last.entry.company
         /\ chroma[i].role = last.entry.role
         /\ chroma[i].model_provider = last.provider
         /\ chroma[i].model_name # last.model

\* C3: a lookup returns an entry only if the cosine similarity of the query
\* embedding and the entry's embedding is at least the threshold computed for
\* the request.
C3_ThresholdGate ==
    (last.op = "lookup" /\ last.hit /\ last.entry.embedding # NoEmbedding) =>
        CosSim(Embed(last.text), last.entry.embedding) >= last.threshold

\* C4: a store whose quality score is below config.min_quality_score leaves
\* every tier as it was.
C4_QualityRejection ==
    (last.op = "store" /\ last.quality < cfg.min_quality_score) => ~last.changed

\* the tier that served a hit, as a failure flag of the lookup
TierFailed(e) ==
    \/ e.tier = "faiss" /\ (e.fl.annFails \/ e.fl.redisFails)
    \/ e.tier = "vdb-chroma" /\ (e.fl.chromaFails \/ e.cbOpen)
    \/ e.tier = "scan" /\ e.fl.redisFails

\* C5: a lookup whose query embedding succeeded never raises, whichever tiers
\* fail: it returns an entry that a working tier served, or it returns None
\* and counts the request as a miss.
C5_FailuresBecomeMisses ==
    (last.op = "lookup" /\ ~last.fl.embedFails) =>
        /\ ~last.raised
        /\ last.hit => ~TierFailed(last)
        /\ ~last.hit => last.missCounted /\ last.entry = NoEntry

\* a lookup ended in a counted miss with the ANN search, the vector store and
\* the content store all failing, while the content store held the request's
\* entry
C5_Witness ==
    /\ last.op = "lookup"
    /\ last.fl.annFails /\ last.fl.chromaFails /\ last.fl.redisFails
    /\ ~last.hit
    /\ last.missCounted
    /\ \E k \in DOMAIN redis :
         k[3] = ContentHash(last.text, last.provider, last.model)

\* C6: while the breaker of the persistent vector store is OPEN (and nothing
\* else fails), a lookup does not raise, and it returns a hit when the
\* vector database's memory tier or the ANN index holds a matching entry.
C6_OpenBreakerStillHits ==
    (last.op = "lookup" /\ last.cbOpen /\ last.fl = NoFaults) =>
        /\ ~last.raised
        /\ (last.memHolds \/ last.annHolds) => last.hit

----------------------------------------------------------------------------
(* Properties of MemoryCache, under SpecMC *)

\* C7: in every reachable state, whatever the policy and the interleaving of
\* get and put, MemoryCache.cache holds at most max_size entries.
C7_SizeBound == MCSize(mc) <= mc.max_size

\* a put into a full cache has completed while another thread also ran
C7_Witness ==
    /\ mcLast.op = "put"
    /\ MCSize(mcLast.pre) = mcLast.pre.max_size
    /\ MCSize(mc) = mc.max_size
    /\ \E t \in MCThreads : mcPc[t].at = "insert"

MCEvicted(e) == (DOMAIN e.pre.cache) \ (DOMAIN e.post.cache)

MCPutIntoFull(e) == e.op = "put" /\ MCSize(e.pre) = e.pre.max_size

\* C8 as stated: every put into a cache that holds max_size entries evicts
\* exactly one entry, whatever key is put; the evicted entry is not the one
\* put, and the key is present with the new value afterwards.
C8_EvictsUnconditionally ==
    MCPutIntoFull(mcLast) =>
        /\ Cardinality(MCEvicted(mcLast)) = 1
        /\ mcLast.key \notin MCEvicted(mcLast)
        /\ MCHas(mcLast.post, mcLast.key)
        /\ mcLast.post.cache[mcLast.key].value = mcLast.value

\* C8 amended: a put of an absent key into a full cache evicts exactly one
\* entry; a put of a key the full cache already holds evicts nothing and
\* overwrites the value; either way the key is present with the new value and
\* the size is unchanged.
C8_EvictsWhenKeyAbsent ==
    MCPutIntoFull(mcLast) =>
        /\ ~mcLast.hit => Cardinality(MCEvicted(mcLast)) = 1
        /\ mcLast.hit => MCEvicted(mcLast) = {}
        /\ mcLast.key \notin MCEvicted(mcLast)
        /\ MCHas(mcLast.post, mcLast.key)
        /\ mcLast.post.cache[mcLast.key].value = mcLast.value
        /\ MCSize(mcLast.post) = MCSize(mcLast.pre)

\* a put of an absent key into a full cache of two entries has completed
C8_Witness ==
    /\ MCPutIntoFull(mcLast)
    /\ ~mcLast.hit
    /\ mcLast.pre.max_size = 2
    /\ Cardinality(MCEvicted(mcLast)) = 1

----------------------------------------------------------------------------
(* Properties of CircuitBreaker, under SpecCB *)

\* C9: when failure_threshold guarded calls have failed since the last
\* successful one, the breaker is OPEN right after the last of these failures
\* and last_failure_time is that failure's time; a success completing while
\* CLOSED leaves failure_count at 0; and a failure opens a CLOSED breaker only
\* as the failure_threshold-th (or later) failure of its run.
C9_OpensAtThreshold ==
    /\ (cbLast.kind = "failure" /\ cbRun >= FailureThreshold) =>
           /\ cb.state = "OPEN"
           /\ cb.last_failure_time = cbLast.at
    /\ (cbLast.kind = "success" /\ cbLast.pre.state = "CLOSED") =>
           /\ cbLast.post.failure_count = 0
           /\ cbLast.post.state = "CLOSED"
    /\ (cbLast.kind = "failure" /\ cbLast.pre.state = "CLOSED"
            /\ cbLast.post.state = "OPEN") => cbRun >= FailureThreshold
    /\ (cbLast.kind = "failure" /\ cbLast.pre.state = "CLOSED"
            /\ cbRun < FailureThreshold) => cb.state = "CLOSED"

\* the failure_threshold-th failure of a run that began CLOSED has just opened
\* the breaker, later than time 0
C9_Witness ==
    /\ cbLast.kind = "failure"
    /\ cbRun = FailureThreshold
    /\ cbRunStart = "CLOSED"
    /\ cbLast.pre.state = "CLOSED"
    /\ cb.state = "OPEN"
    /\ cbLast.at > 0

\* the call entered while OPEN with less than recovery_timeout elapsed
CBEnteredWhileOpen(e) ==
    /\ e.kind \in {"admit", "reject"}
    /\ e.pre.state = "OPEN"
    /\ e.at - e.pre.last_failure_time < RecoveryTimeout

\* C10: a call entered while OPEN with less than recovery_timeout elapsed since
\* last_failure_time raises, starts no invocation of the guarded function and
\* leaves state, failure_count and last_failure_time as they were.
C10_FailFast ==
    CBEnteredWhileOpen(cbLast) =>
        /\ cbLast.kind = "reject"
        /\ ~cbLast.started
        /\ cbPc[cbLast.thread] = "idle"
        /\ cb.state = cbLast.pre.state
        /\ cb.failure_count = cbLast.pre.failure_count
        /\ cb.last_failure_time = cbLast.pre.last_failure_time

\* a call was rejected one tick after the failure that opened the breaker
C10_Witness ==
    /\ CBEnteredWhileOpen(cbLast)
    /\ cbLast.kind = "reject"
    /\ cbLast.at > cbLast.pre.last_failure_time

\* the call entered the breaker while it was OPEN
CBEnteredOpen(e) == e.kind \in {"admit", "reject"} /\ e.pre.state = "OPEN"

\* the time since last_failure_time when the critical section ran
CBElapsed(e) == e.at - e.pre.last_failure_time

\* C11 as claimed: a call entered while OPEN with elapsed time >=
\* recovery_timeout moves the breaker to HALF_OPEN and is admitted as a trial
\* call, and the breaker never moves from OPEN to HALF_OPEN earlier.
C11_RecoveryAtTimeout ==
    /\ (CBEnteredOpen(cbLast) /\ CBElapsed(cbLast) >= RecoveryTimeout) =>
           /\ cbLast.kind = "admit"
           /\ cbLast.post.state = "HALF_OPEN"
    /\ (cbLast.pre.state = "OPEN" /\ cbLast.post.state = "HALF_OPEN") =>
           CBElapsed(cbLast) >= RecoveryTimeout

\* C11 amended: a call entered while OPEN with strictly more than
\* recovery_timeout elapsed since last_failure_time moves the breaker to
\* HALF_OPEN, with half_open_calls 0, and is admitted as a trial call; a call
\* entered while OPEN with elapsed time <= recovery_timeout is rejected and
\* leaves the breaker OPEN; nothing else moves the breaker from OPEN to
\* HALF_OPEN.
C11_RecoveryAfterTimeout ==
    /\ (CBEnteredOpen(cbLast) /\ CBElapsed(cbLast) > RecoveryTimeout) =>
           /\ cbLast.kind = "admit"
           /\ cbLast.started
           /\ cbPc[cbLast.thread] = "running"
           /\ cbLast.post.state = "HALF_OPEN"
           /\ cbLast.post.half_open_calls = 0
    /\ (CBEnteredOpen(cbLast) /\ CBElapsed(cbLast) <= RecoveryTimeout) =>
           /\ cbLast.kind = "reject"
           /\ cbLast.post = cbLast.pre
    /\ (cbLast.pre.state = "OPEN" /\ cbLast.post.state = "HALF_OPEN") =>
           /\ cbLast.kind = "admit"
           /\ CBElapsed(cbLast) > RecoveryTimeout

\* the first call after more than recovery_timeout was admitted as the trial
C11_Witness ==
    /\ CBEnteredOpen(cbLast)
    /\ CBElapsed(cbLast) = RecoveryTimeout + 1
    /\ cbLast.kind = "admit"
    /\ cb.state = "HALF_OPEN"

\* C12: while the breaker is HALF_OPEN, at most half_open_max_calls calls
\* have been admitted to the guarded function since it became HALF_OPEN.
C12_BoundedTrials ==
    cb.state = "HALF_OPEN" => cbHalf.admitted <= HalfOpenMaxCalls

\* C13: a failure that completes while the breaker is HALF_OPEN leaves it
\* OPEN with last_failure_time the time of that failure, and a call entered
\* before a full recovery_timeout has passed since then is rejected.
C13_HalfOpenFailureReopens ==
    /\ (cbLast.kind = "failure" /\ cbLast.pre.state = "HALF_OPEN") =>
           /\ cb.state = "OPEN"
           /\ cb.last_failure_time = cbLast.at
           /\ cb.failure_count = cbLast.pre.failure_count + 1
    /\ (CBEnteredOpen(cbLast) /\ cbLast.at < cbLast.pre.last_failure_time
                                            + RecoveryTimeout) =>
           /\ cbLast.kind = "reject"
           /\ cb.state = "OPEN"

\* a trial call failed later than the failure that had opened the breaker
C13_Witness ==
    /\ cbLast.kind = "failure"
    /\ cbLast.pre.state = "HALF_OPEN"
    /\ cbLast.trial
    /\ cbLast.at > cbLast.pre.last_failure_time
    /\ cb.state = "OPEN"

\* C14: the breaker moves from HALF_OPEN to CLOSED only on the success of a
\* trial call (a call admitted since it became HALF_OPEN), and failure_count
\* is 0 afterwards.
C14_ClosesOnTrialSuccess ==
    (cbLast.pre.state = "HALF_OPEN" /\ cbLast.post.state = "CLOSED") =>
        /\ cbLast.kind = "success"
        /\ cbLast.trial
        /\ cbLast.post.failure_count = 0

\* C18: the threshold that _calculate_dynamic_threshold returns lies in
\* [0.70, 0.95], whatever the configured base threshold, the request context
\* and the population size.
C18_ThresholdInRange ==
    last.op = "threshold" => (70 <= last.threshold /\ last.threshold <= 95)

\* the content-store key and the memory-tier key of the last request
StoredKey ==
    CreateCacheKey(PjdGet(last.pjd, "company", "unknown"),
                   PjdGet(last.pjd, "role", "unknown"),
                   ContentHash(last.text, last.provider, last.model))

VdbStoredKey ==
    VdbCacheKey(PjdGet(last.pjd, "company", "unknown"),
                PjdGet(last.pjd, "role", "unknown"), last.provider, now)

\* the content store holds the last request's entry
ContentStoreHolds ==
    IF cfg.redis
    THEN /\ RedisLive(redis, StoredKey, now)
         /\ redis[StoredKey].val.content = last.content
    ELSE /\ StoredKey \in DOMAIN memCache
         /\ heap[memCache[StoredKey]].content = last.content

\* SemanticCache's FAISS id map holds a record of the last request's entry
AnnHolds == \E i \in 1..Len(sfaiss) : sfaiss[i].cache_key = StoredKey

\* the vector database's memory cache holds the last request's entry
MemoryHolds ==
    /\ MCHas(mc, VdbStoredKey)
    /\ heap[mc.cache[VdbStoredKey].value.entry].content = last.content

\* the last operation was a store whose only failure was the persistent
\* vector write: the breaker rejected it, or the ChromaDB add raised
VectorWriteFailed ==
    /\ last.op = "store"
    /\ cfg.vdb
    /\ last.cbOpen \/ last.fl.chromaFails
    /\ ~(last.fl.embedFails \/ last.fl.redisFails \/ last.fl.annFails)

\* C15: a store whose persistent vector write fails (breaker OPEN, or the
\* ChromaDB add raising) still returns True, and afterwards the content store
\* holds the entry and so does SemanticCache's ANN index, where there is one.
C15_VectorFailureKeepsStore ==
    VectorWriteFailed =>
        /\ last.ret
        /\ ContentStoreHolds
        /\ cfg.faiss => AnnHolds

\* a store was rejected by the OPEN breaker and still came back True
C15_Witness ==
    /\ VectorWriteFailed
    /\ last.cbOpen
    /\ cfg.faiss
    /\ last.ret
    /\ AnnHolds

\* C16: a store whose Redis write raises still returns True and puts the
\* entry into the ANN index and into the vector database's memory tier.
C16_RedisFailureKeepsStore ==
    (last.op = "store" /\ cfg.redis /\ last.fl.redisFails) =>
        /\ last.ret
        /\ cfg.faiss => AnnHolds
        /\ (cfg.vdb /\ ~last.cbOpen) => MemoryHolds

\* C17: after clear_cache returned True no tier holds an entry, and a lookup
\* that directly follows a clear is a miss.
C17_ClearEmptiesAllTiers ==
    /\ (last.op = "clear" /\ last.ret) =>
           /\ redis = EmptyMap
           /\ memCache = EmptyMap
           /\ sfaiss = << >>
           /\ MCSize(mc) = 0
           /\ chroma = << >>
    /\ (last.op = "lookup" /\ last.prev.op = "clear" /\ last.prev.ret) =>
           ~last.hit

\* C19: a successful store that directly repeats a successful store of the
\* same request leaves every tier with as many entries as before it.
C19_StoreIdempotent ==
    (/\ last.op = "store" /\ last.ret
     /\ last.prev.op = "store" /\ last.prev.ret
     /\ last.text = last.prev.text /\ last.pjd = last.prev.pjd
     /\ last.provider = last.prev.provider /\ last.model = last.prev.model
     /\ last.fl = NoFaults /\ last.prev.fl = NoFaults) =>
        TierSizes(World) = last.sizes

\* C20: a store whose persistent vector write fails still puts the entry
\* into the vector database's memory tier.
C20_BreakerSparesMemoryTier ==
    VectorWriteFailed => MemoryHolds

\* the operations that use the persistent vector store
CollectionOps == {"store", "lookup", "warm", "preload", "hitcount", "cleanup", "statistics"}

\* C21: while the breaker is OPEN and its recovery timeout has not elapsed, no
\* operation on the persistent vector store (add_cache_entry, the ChromaDB
\* search, cleanup_old_entries, update_hit_count, get_statistics) reaches the
\* collection.
C21_OpenBreakerGuardsCollection ==
    (last.op \in CollectionOps /\ last.cbOpen) => ~last.reached

\* the records of the collection that warm_cache added
WarmedRecords == {i \in 1..Len(chroma) : \E k \in 1..Len(WarmTemplates) : chroma[i].doc = WarmTemplates[k]}

\* C22: warming is no bypass of the store path: every entry that warm_cache
\* inserted carries the quality score the heuristic computes from its content,
\* and that score is not below min_quality_score.
C22_WarmedEntriesScoredByHeuristic ==
    \A i \in WarmedRecords :
        /\ chroma[i].quality_score =
              QualityScore(WarmContent, WarmPjd(chroma[i].company, chroma[i].role))
        /\ chroma[i].quality_score >= cfg.min_quality_score

\* C23: when warm_cache returns normally, every template whose write failed
\* is counted in failed_entries: warmed_entries + failed_entries equals
\* templates_processed.
C23_WarmCountsEveryTemplate ==
    (last.op = "warm" /\ last.ret) =>
        last.count + last.failed = Len(WarmTemplates)

\* when the entry a search found was last written: by cache_response
\* (created_at) or by the last hit's _update_cache_entry (last_accessed)
LastWritten(e) == IF e.last_accessed > e.created_at THEN e.last_accessed ELSE e.created_at

\* C24: no lookup returns an entry more than ttl_seconds after it was last
\* written: an expired entry is served by no tier, the in-memory fallback
\* dict and the vector database's memory tier included.
C24_NoHitAfterTtl ==
    (last.op = "lookup" /\ last.hit) => now - LastWritten(last.found) <= TtlTicks

\* a put has completed that evicted an entry under the policy
MCPutEvicted(e, policy) ==
    /\ e.op = "put"
    /\ e.pre.eviction_policy = policy
    /\ MCEvicted(e) # {}

\* C25: under the LRU policy the entry evicted is, among the entries present
\* before the put, the one whose most recent access (a successful get or a
\* put) is the oldest.
C25_LruEvictsLeastRecentlyUsed ==
    MCPutEvicted(mcLast, "LRU") =>
        \A v \in MCEvicted(mcLast) : \A k \in DOMAIN mcLast.pre.cache :
            mcLast.seenPre.accessed[v] <= mcLast.seenPre.accessed[k]

\* an LRU eviction has spared the entry inserted first, because a get had
\* refreshed it
C25_Witness ==
    /\ MCPutEvicted(mcLast, "LRU")
    /\ \E v \in MCEvicted(mcLast) : \E k \in DOMAIN mcLast.pre.cache :
         /\ mcLast.seenPre.inserted[k] < mcLast.seenPre.inserted[v]
         /\ mcLast.seenPre.accessed[v] < mcLast.seenPre.accessed[k]

\* C26: under the FIFO policy the entry evicted is, among the entries present
\* before the put, the one inserted earliest; neither a get nor a later put
\* of a key already present changes a key's place in that order.
C26_FifoEvictsFirstInserted ==
    MCPutEvicted(mcLast, "FIFO") =>
        \A v \in MCEvicted(mcLast) : \A k \in DOMAIN mcLast.pre.cache :
            mcLast.seenPre.inserted[v] <= mcLast.seenPre.inserted[k]

\* C27: a get of an absent key returns None and leaves cache, access_times
\* and access_counts as they were; a get of a present key returns its value
\* and changes nothing but that key's access time and access count.
C27_GetFrame ==
    mcLast.op = "get" =>
        /\ mcLast.post.cache = mcLast.pre.cache
        /\ mcLast.post.order = mcLast.pre.order
        /\ ~mcLast.hit => mcLast.value = "None" /\ mcLast.post = mcLast.pre
        /\ mcLast.hit =>
              /\ mcLast.value = mcLast.pre.cache[mcLast.key].value
              /\ DOMAIN mcLast.post.access_times = DOMAIN mcLast.pre.access_times
              /\ DOMAIN mcLast.post.access_counts = DOMAIN mcLast.pre.access_counts
              /\ \A k \in DOMAIN mcLast.pre.cache \ {mcLast.key} :
                    /\ mcLast.post.access_times[k] = mcLast.pre.access_times[k]
                    /\ mcLast.post.access_counts[k] = mcLast.pre.access_counts[k]
              /\ mcLast.post.access_counts[mcLast.key] =
                    mcLast.pre.access_counts[mcLast.key] + 1

\* a get has missed in a cache that holds an entry, after a get that hit
C27_Witness ==
    /\ mcLast.op = "get"
    /\ ~mcLast.hit
    /\ mcLast.pre.cache # EmptyMap
    /\ \E k \in DOMAIN mcLast.pre.access_counts : mcLast.pre.access_counts[k] >= 2

\* C28: a hit updates the entry where it is stored: after get_cached_response
\* returned an entry, the content store has the keys it had before (the hit
\* created no key), and the entry it holds for the request carries the
\* incremented hit_count and the refreshed last_accessed.
C28_HitCreatesNoKey ==
    (last.op = "lookup" /\ last.hit) =>
        /\ TierSizes(World).content = last.sizes.content
        /\ last.entry.hit_count = last.found.hit_count + 1
        /\ last.entry.last_accessed = now

\* the collection holds a record that serves the last request
ChromaServesLast ==
    ChromaBest(chroma, last.text, last.provider, last.model,
               RequestCompany(last.pjd), RequestRole(last.pjd), last.threshold) # 0

\* C29: when the vector tier matches an entry without content and the content
\* store has no content for it, the lookup neither raises nor returns that
\* entry: no hit carries empty content.
C29_NoHitWithoutContent ==
    last.op = "lookup" =>
        /\ ~last.raised
        /\ last.hit => last.entry.content # ""

\* a lookup reached the collection, which held a record serving the request
\* whose content the content store no longer had, and ended as a miss
C29_Witness ==
    /\ last.op = "lookup"
    /\ last.reached
    /\ ChromaServesLast
    /\ ~last.hit
    /\ ~last.raised
    /\ last.fl = NoFaults
    /\ \A i \in 1..Len(chroma) : chroma[i].doc = last.text

\* C30: after every completed get_cached_response (a hit, a miss or a caught
\* error) stats.hit_ratio equals cache_hits / total_requests.
C30_HitRatioIsCurrent ==
    last.op = "lookup" =>
        stats.hit_ratio[1] * stats.total_requests = stats.cache_hits * stats.hit_ratio[2]

\* C31: every search result placed in the vector database's in-memory tier
\* (on add, on the search's write-back, on preload) has a similarity within
\* [-1, 1], whatever the popularity score.
C31_SimilarityInRange ==
    \A k \in DOMAIN mc.cache :
        /\ mc.cache[k].value.similarity >= -100
        /\ mc.cache[k].value.similarity <= 100

\* the FAISS index holds an entry of the last request's provider and model, of
\* sufficient quality, similar enough, whose full entry the content store has
AnnServesLast ==
    /\ cfg.faiss
    /\ \E i \in 1..Len(sfaiss) :
         /\ sfaiss[i].model_provider = last.provider
         /\ sfaiss[i].model_name = last.model
         /\ sfaiss[i].quality_score >= cfg.min_quality_score
         /\ CosSim(Embed(last.text), sfaiss[i].embedding) >= last.threshold
         /\ StoreGet(World, sfaiss[i].cache_key, now).found

\* C33: when the FAISS index holds such an entry, _find_best_match_faiss
\* returns it and get_cached_response ends as a hit of the ANN tier.
C33_AnnTierHit ==
    (last.op = "lookup" /\ last.fl = NoFaults /\ AnnServesLast) =>
        /\ last.hit
        /\ last.tier = "faiss"

\* the preference bonus of index record m for the last request
AnnBonus(m) ==
    (IF Lower(m.company) = Lower(RequestCompany(last.pjd)) THEN 2 ELSE 0)
    + (IF Lower(m.role) = Lower(RequestRole(last.pjd)) THEN 1 ELSE 0)

\* index records of the last request's model whose full entry is stored and
\* whose raw similarity is below the threshold that the bonus lifts them over
AnnLifted ==
    {i \in 1..Len(sfaiss) :
        /\ sfaiss[i].model_provider = last.provider
        /\ sfaiss[i].model_name = last.model
        /\ StoreGet(World, sfaiss[i].cache_key, now).found
        /\ CosSim(Embed(last.text), sfaiss[i].embedding) < last.threshold
        /\ CosSim(Embed(last.text), sfaiss[i].embedding) + AnnBonus(sfaiss[i])
             >= last.threshold}

C34_RecoveryLive ==
    (cb.state # "CLOSED") ~> (cb.state = "CLOSED" /\ cb.failure_count = 0)

\* after the last failure a trial call has returned and closed the breaker
C34_Witness ==
    /\ now > CBFailUntil
    /\ cbLast.kind = "success"
    /\ cbLast.trial
    /\ cbLast.pre.state = "HALF_OPEN"
    /\ cb.state = "CLOSED"
    /\ cb.failure_count = 0

\* C35: under every interleaving of concurrent calls, the breaker is CLOSED
\* if and only if failure_count is below failure_threshold.
C35_ClosedIffBelowThreshold ==
    (cb.state = "CLOSED") <=> (cb.failure_count < FailureThreshold)

\* a call admitted while the breaker was CLOSED has returned while it was
\* OPEN, after the failures of another thread's calls
C35_Witness ==
    /\ cbLast.kind = "success"
    /\ cbLast.pre.state = "OPEN"
    /\ cb.state = "OPEN"
    /\ cb.failure_count >= FailureThreshold

\* C36: only a trial call moves the breaker out of HALF_OPEN: the completion
\* of a call that was admitted before the breaker became HALF_OPEN neither
\* closes nor reopens it.
C36_StaleCompletionKeepsHalfOpen ==
    (/\ cbLast.kind \in {"success", "failure"}
     /\ cbLast.pre.state = "HALF_OPEN"
     /\ ~cbLast.trial) =>
        cbLast.post.state = "HALF_OPEN"

\* C37: every content get_cached_response returns was passed to cache_response
\* by a caller (the callers' contents are the generator's cover letters for
\* the job texts): the cache never serves text that no caller stored, such as
\* the synthetic text of cache warming.
C37_ServedContentWasStored ==
    (last.op = "lookup" /\ last.hit) =>
        \E text \in Texts : last.entry.content = Generate(text)

\* C39: memory-tier entries of different models do not interfere: after a
\* store for (company, role, provider, model A) and then a store for the same
\* company, role and provider with another model B, the tier not being full,
\* the in-memory tier still holds the entry stored for model A.
C39_ModelsDoNotInterfere ==
    ( /\ last.op = "store" /\ last.prev.op = "store"
      /\ cfg.vdb
      /\ last.ret /\ last.prev.ret
      /\ last.fl = NoFaults /\ last.prev.fl = NoFaults
      /\ last.pjd = last.prev.pjd
      /\ last.provider = last.prev.provider
      /\ last.model # last.prev.model
      /\ last.sizes.memory < VdbMemoryCacheSize )
    => \E k \in DOMAIN mc.cache :
          /\ heap[mc.cache[k].value.entry].model_provider = last.prev.provider
          /\ heap[mc.cache[k].value.entry].model_name = last.prev.model
          /\ heap[mc.cache[k].value.entry].content = last.prev.content

\* C40: without Redis the _memory_cache dictionary never holds more than
\* config.max_cache_size entries, whatever cache_response calls and lookup
\* hits were made.
C40_MemoryFallbackBounded ==
    ~cfg.redis => Cardinality(DOMAIN memCache) <= MaxCacheSize

\* C38: for every interleaving of get_cached_response tasks and clear_cache
\* calls, cache_hits + cache_misses <= total_requests, and the two are equal
\* whenever no lookup is in flight.
C38_CountersUnderInterleaving ==
    /\ stats.cache_hits + stats.cache_misses <= stats.total_requests
    /\ (\A task \in ScTasks : scPc[task].at = "idle") =>
           stats.cache_hits + stats.cache_misses = stats.total_requests

====
